---- MODULE Spec2Model ----
(***************************************************************************)
(* Scenario supervisor of the OTEL demo service (src/app.py).              *)
(*                                                                         *)
(* The supervisor is a Flask process whose request handlers run on         *)
(* concurrent threads.  The handlers start_scenario, stop_scenario and     *)
(* get_scenario_status share the dictionary _running_scenarios, guarded by *)
(* _scenarios_lock.  Scenario processes are children of the supervisor;    *)
(* they exit on their own, after SIGTERM, or after SIGKILL.                *)
(*                                                                         *)
(* Library behaviour assumed (CPython subprocess):                         *)
(*   Popen.poll()       None while the child has not exited                *)
(*   Popen.terminate()  no-op on an exited child, else os.kill(SIGTERM),   *)
(*                      which can raise OSError                            *)
(*   Popen.wait(t)      returns as soon as the child has exited, raises    *)
(*                      TimeoutExpired after t time units otherwise        *)
(*   Popen.kill()       os.kill(SIGKILL); does not wait for the child      *)
(***************************************************************************)
EXTENDS Integers, Sequences, FiniteSets, TLC

\* ------------------------------------------------------------------ bounds
MaxProcs == 2          \* processes the supervisor may spawn in one run

\* -------------------------------------------------------- program constants
StopTimeout == 5       \* proc.wait(timeout=5) in stop_scenario

\* ------------------------------------------------------------- value sets
Threads == {"t1", "t2"}
NoThread == "none"

\* directory entries of scenarios/, as sequences of characters
PySuffix == <<".", "p", "y">>
AllFiles == { <<"a">> \o PySuffix, <<"b">> \o PySuffix }

\* names a request may carry in its URL
ReqNames == { <<"a">>, <<"b">> }
NoName == <<>>

Pids == 1..MaxProcs
NoPid == 0

\* results of the handlers
ResNone == "none"
ResNotFound == "error: not found"
ResAlreadyRunning == "error: already running"
ResStarted == "started"
ResSpawnError == "error: spawn failed"
ResNotRunning == "error: not running"
ResStopped == "stopped"
ResKilled == "killed"
ResStopError == "error: exception"
ResStatus == "status"

\* states of a process that has not exited: poll() returns None in all three
LiveStates == {"alive", "sigterm", "sigkill"}

VARIABLES
    scenarioDir,        \* files present in scenarios/
    running_scenarios,  \* _running_scenarios: name -> [process, pid]
    scenarios_lock,     \* thread holding _scenarios_lock, or NoThread
    procState,          \* pid -> "unborn", "alive", "sigterm" (SIGTERM
                        \* delivered), "sigkill" (SIGKILL delivered), "exited"
    procName,           \* pid -> scenario name the process was spawned for
    nextPid,            \* pid the next Popen will create
    pc,                 \* thread -> position in its handler
    op,                 \* thread -> handler being run
    arg,                \* thread -> scenario_name of the request
    scenarios,          \* thread -> local `scenarios` (result of discover)
    proc,               \* thread -> local `proc`
    waited,             \* thread -> time spent in proc.wait so far
    result,             \* thread -> value last returned by a handler
    statusOut,          \* thread -> name -> [running, pid] built by status
    todo,               \* thread -> names get_scenario_status has yet to visit
    \* history variables, written but never read by the handlers
    entryAtCheck,       \* thread -> what the lookup under the lock found:
                        \* "absent", "exited", "alive" ("none" before it)
    seenSpawn           \* thread -> pids spawned for arg by other calls since
                        \* this call began

supVars == <<running_scenarios, scenarios_lock>>
procVars == <<procState, procName, nextPid>>
threadVars == <<pc, op, arg, scenarios, proc, waited, result, statusOut, todo>>
histVars == <<entryAtCheck, seenSpawn>>

\* ---------------------------------------------------------------- helpers
EndsWith(s, suf) ==
    /\ Len(s) >= Len(suf)
    /\ SubSeq(s, Len(s) - Len(suf) + 1, Len(s)) = suf

\* Path.glob("*.py")
GlobPy(dir) == { f \in dir : EndsWith(f, PySuffix) }

\* mutant: no name is excluded
StartsWithUnderscoreNever(f) == FALSE

\* scenario_file.name.startswith("_")
StartsWithUnderscore(f) == Len(f) > 0 /\ f[1] = "_"

\* Path.stem
Stem(f) == SubSeq(f, 1, Len(f) - Len(PySuffix))

\* discover_scenarios(): the names of the dictionary it returns; every value
\* of that dictionary carries running False and pid None
discover_scenarios(dir) ==
    { Stem(f) : f \in { g \in GlobPy(dir) : ~StartsWithUnderscore(g) } }

DiscoveredEntry == [running |-> FALSE, pid |-> NoPid]

EmptyMap == [x \in {} |-> NoPid]

\* d[k] = v
DictSet(d, k, v) == [x \in DOMAIN d \cup {k} |-> IF x = k THEN v ELSE d[x]]

\* del d[k]
DictDel(d, k) == [x \in DOMAIN d \ {k} |-> d[x]]

\* proc.poll() is None
PollIsNone(p) == procState[p] \in LiveStates

\* Popen.send_signal: poll first, signal only a process that has not exited;
\* a delivered SIGKILL is not undone by a later signal
SendSignal(st, sig) ==
    IF st \notin LiveStates THEN st
    ELSE IF st = "sigkill" THEN st
    ELSE sig

\* scenario_name in _running_scenarios
HasEntry(n) == n \in DOMAIN running_scenarios

\* mutant: the handlers do not wait for the lock
LockFreeAlways == TRUE

\* with _scenarios_lock: the lock can be taken
LockFree == scenarios_lock = NoThread

Idle(t) == pc[t] = "idle"

\* ------------------------------------- fault pattern store: program constants
MinRpm == 1            \* set_rpm: max(1, ...)
MaxRpm == 1000         \* set_rpm: min(..., 1000)
DefaultRpm == 10       \* patterns.get("rpm", 10)
MsPerMinute == 60000   \* sleep_time = 60.0 / rpm seconds, in milliseconds

\* -------------------------------------------- fault pattern store: values
\* scenarios of the repository: the keys of PROBLEM_PATTERNS, one per file of
\* src/scenarios
ScenarioNames == {"single", "service-tree", "astroshop"}

\* JSON values a request body or a control record can carry: t is the JSON
\* type, n the number (booleans: 0 or 1)
JBool(b) == [t |-> "bool", n |-> IF b THEN 1 ELSE 0]
JInt(k) == [t |-> "int", n |-> k]
JStr == [t |-> "str", n |-> 0]          \* a non-empty string such as "fast"

\* Python truth value of a JSON value
Truthy(v) == IF v.t = "str" THEN TRUE ELSE v.n # 0

\* Python numbers: bool is a subclass of int
IsNumber(v) == v.t \in {"bool", "int"}

\* the pattern of PROBLEM_PATTERNS[s] the operator toggles, one per scenario
PatternOf(s) ==
    IF s = "single" THEN "timeout"
    ELSE IF s = "service-tree" THEN "slow_db"
    ELSE "payment_timeout"

\* pattern names a request may carry in its URL: the route takes any string,
\* "rpm" included
PatternNames(s) == {PatternOf(s), "rpm"}

Keys == {"timeout", "slow_db", "payment_timeout", "rpm"}

\* values of "enabled" a request body may carry for pattern p
EnabledVals(p) ==
    IF p = "rpm" THEN {JInt(0), JStr} ELSE {JBool(TRUE), JBool(FALSE)}

\* values of "rpm" a request body may carry
RateVals == {-5, 42, 5000}

\* a Python dict with string keys
EmptyDict == [x \in {} |-> JInt(0)]

\* d.get(k, default)
DictGet(d, k, default) == IF k \in DOMAIN d THEN d[k] ELSE default

\* what json.load returns: a dict, or another JSON value (kind "list")
AsDict(d) == [kind |-> "dict", d |-> d]
NotADict == [kind |-> "list", d |-> EmptyDict]

\* text of a control file as a sequence of tokens: braces, brackets and
\* "key": value members
LBrace == [k |-> "{", v |-> JInt(0)]
RBrace == [k |-> "}", v |-> JInt(0)]
LBrack == [k |-> "[", v |-> JInt(0)]
RBrack == [k |-> "]", v |-> JInt(0)]
Member(k, v) == [k |-> k, v |-> v]

\* order in which json.dump writes the members (a fixed order stands for the
\* dict's insertion order)
KeyOrder == <<"timeout", "slow_db", "payment_timeout", "rpm">>

\* mutant: json.dump writes the first member only
DumpFirstOnly(d) ==
    LET ks == SelectSeq(KeyOrder, LAMBDA k : k \in DOMAIN d)
    IN  <<LBrace>>
        \o [i \in 1..(IF Len(ks) > 0 THEN 1 ELSE 0) |-> Member(ks[i], d[ks[i]])]
        \o <<RBrace>>

\* json.dump(patterns, f): the text written for dict d
Dump(d) ==
    LET ks == SelectSeq(KeyOrder, LAMBDA k : k \in DOMAIN d)
    IN  <<LBrace>>
        \o [i \in 1..Len(ks) |-> Member(ks[i], d[ks[i]])]
        \o <<RBrace>>

\* the text is a JSON object
IsObjectText(s) ==
    /\ Len(s) >= 2
    /\ s[1] = LBrace
    /\ s[Len(s)] = RBrace
    /\ \A i \in 2..(Len(s) - 1) : s[i].k \in Keys

\* the text is a JSON value that is not an object
IsOtherJson(s) == s = <<LBrack, RBrack>>

\* json.load of an object text: the last member of a key wins
ParseObject(s) ==
    LET idx(k) == { i \in 2..(Len(s) - 1) : s[i].k = k }
        last(k) == CHOOSE i \in idx(k) : \A j \in idx(k) : j <= i
    IN  [k \in { s[i].k : i \in 2..(Len(s) - 1) } |-> s[last(k)].v]

\* a control file: absent, or present with its text
AbsentFile == [exists |-> FALSE, data |-> <<>>]
FileWith(s) == [exists |-> TRUE, data |-> s]

\* mutant: a corrupt file is handed on as it is read
load_patterns_strict(f) ==
    IF ~f.exists THEN AsDict(EmptyDict)
    ELSE IF IsObjectText(f.data) THEN AsDict(ParseObject(f.data))
    ELSE NotADict

\* mutant: the record on disk is not read
load_patterns_empty(f) == AsDict(EmptyDict)

\* load_patterns (src/app.py and src/scenarios/single.py carry the same
\* code): {} for an absent file and for a text json.load rejects
load_patterns(f) ==
    IF ~f.exists THEN AsDict(EmptyDict)
    ELSE IF IsObjectText(f.data) THEN AsDict(ParseObject(f.data))
    ELSE IF IsOtherJson(f.data) THEN NotADict
    ELSE AsDict(EmptyDict)

PyMin(a, b) == IF a <= b THEN a ELSE b
PyMax(a, b) == IF a >= b THEN a ELSE b

\* mutant: only the upper limit is applied
ClampUpperOnly(r) == PyMin(r, MaxRpm)

\* set_rpm line 196: max(1, min(int(rpm), 1000))
Clamp(r) == PyMax(MinRpm, PyMin(r, MaxRpm))

\* PROBLEM_PATTERNS of astroshop.py: every pattern False, assigned only by
\* toggle_pattern, which nothing calls
AstroPatterns == [k \in {"payment_timeout"} |-> JBool(FALSE)]

\* pauses random.uniform can produce, in milliseconds
TreePauses == {50, 500}
AstroPauses == {200, 1000}

\* contents the control file can have when the supervisor first touches it
InitialFiles ==
    { AbsentFile,
      FileWith(<<LBrace>>),                 \* not parsable
      FileWith(<<LBrack, RBrack>>),         \* parsable, not a mapping
      FileWith(Dump(EmptyDict)) }

NoValue == [t |-> "none", n |-> 0]
NoKey == "-"

VARIABLES
    scenario,       \* the scenario the control requests and the process are for
    controlFile,    \* .scenario_control_<scenario>.json
    cpc,            \* position of the supervisor's control handler
    ckey,           \* key the handler assigns: pattern_name or "rpm"
    cval,           \* value the handler assigns
    patterns,       \* local `patterns` of toggle_pattern / set_rpm
    cresult,        \* last result of a control handler
    simPc,          \* position of the scenario process
    running,        \* global `running` of the scenario process
    simPatterns,    \* patterns the session of this iteration consults
    rpm,            \* local `rpm` of main (NoValue while unbound)
    sleep_time,     \* pause of the current iteration in milliseconds
    crashed,        \* an exception has left main's loop
    \* history variables, written but never read by the program
    cprev,          \* what load_patterns returned to the control handler
    rpmRead,        \* rpm read from the record in this iteration
    stored,         \* the dict the supervisor saved last
    pending,        \* a save has completed, no iteration has begun since
    teardownRaised, \* force_flush or shutdown has raised
    expectRate,     \* rate of the record saved before this iteration began
    firstSession    \* the process has not finished its first iteration

ctlVars == <<scenario, controlFile, cpc, ckey, cval, patterns, cresult, cprev>>
simVars == <<simPc, running, simPatterns, rpm, sleep_time, crashed>>
simHist == <<rpmRead, stored, pending, teardownRaised, expectRate,
             firstSession>>
storeVars == <<ctlVars, simVars, simHist>>

\* the store and the scenario process before anything has happened
StoreQuiet ==
    /\ cpc = "idle"
    /\ ckey = NoKey
    /\ cval = NoValue
    /\ patterns = EmptyDict
    /\ cresult = "none"
    /\ cprev = EmptyDict
    /\ simPc = "unborn"
    /\ running = FALSE
    /\ simPatterns = AsDict(EmptyDict)
    /\ rpm = NoValue
    /\ sleep_time = 0
    /\ crashed = FALSE
    /\ rpmRead = NoValue
    /\ stored = EmptyDict
    /\ pending = FALSE
    /\ teardownRaised = FALSE
    /\ expectRate = NoValue
    /\ firstSession = FALSE

\* ------------------------------------------- call-graph simulator state
\* one scenario process as the supervisor starts it: the loop of main, the
\* spans of the session it simulates, and the pipe its standard output is
\* connected to
VARIABLES
    sessPc,         \* position of main: "loop", "root", "session", "print",
                    \* "sleep", "ended" ("unborn": no such process)
    sessRunning,    \* global `running` of this process
    i,              \* local `i` of main, the session sequence id
    flags,          \* patterns that are enabled for the session
    stack,          \* the `with` blocks that are open, innermost last
    spans,          \* the spans of the session, in the order they were opened
    memory_leak_counter,    \* global `_memory_leak_counter` of astroshop.py
    pipe,           \* progress messages in the stdout pipe, unread
    errPipe,        \* log records in the stderr pipe, unread
    \* history variables, written but never read by the program
    recCalls,       \* calls of simulate_recommendation so far
    raisedBefore    \* the last iteration single.py began ended in its
                    \* except clause

callVars == <<sessPc, sessRunning, i, flags, stack, spans,
              memory_leak_counter, pipe, errPipe, recCalls, raisedBefore>>

\* no scenario process of this kind exists
CallQuiet ==
    /\ sessPc = "unborn"
    /\ sessRunning = FALSE
    /\ i = 0
    /\ flags = {}
    /\ stack = <<>>
    /\ spans = <<>>
    /\ memory_leak_counter = 0
    /\ pipe = 0
    /\ errPipe = 0
    /\ recCalls = 0
    /\ raisedBefore = FALSE

\* ------------------------------------------- concurrent control requests
\* the two request threads of the supervisor's HTTP server that serve
\* api_toggle_pattern and api_set_rpm of one scenario at the same time
Handlers == {"toggle", "rate"}

VARIABLES
    hpc,            \* position of each handler: "idle", "loaded", "opened",
                    \* "done"
    hval,           \* value the handler was asked to store
    hpatterns,      \* local `patterns` of the handler
    hresult,        \* what the handler returned
    \* history variables, written but never read by the program
    torn,           \* a handler read or opened the file while the other
                    \* had it open for writing
    sawOther,       \* the handler loaded after the other one had saved
    lastSaver,      \* the handler whose json.dump reached the file last
    before          \* the record before any of the two requests

raceVars == <<hpc, hval, hpatterns, hresult, torn, sawOther, lastSaver,
              before>>

\* no control request of this kind is in progress
RaceQuiet ==
    /\ hpc = [h \in Handlers |-> "idle"]
    /\ hval = [h \in Handlers |-> NoValue]
    /\ hpatterns = [h \in Handlers |-> EmptyDict]
    /\ hresult = [h \in Handlers |-> "none"]
    /\ torn = FALSE
    /\ sawOther = [h \in Handlers |-> FALSE]
    /\ lastSaver = "none"
    /\ before = EmptyDict

\* ------------------------------------------------- supervisor shutdown
\* the main thread of app.py: app.run until KeyboardInterrupt, then cleanup
MainThread == "main"

VARIABLES
    mainPc,         \* position of the main thread: "serving",
                    \* "cleanup_lock", "cleanup_loop", "cleanup_wait",
                    \* "cleanup_kill", "done"
    cleanTodo,      \* entries of list(_running_scenarios.items()) still to
                    \* be visited
    cleanProc,      \* data["process"] of the entry being visited
    cleanWaited,    \* time units spent in wait(timeout=2)
    \* history variables, written but never read by the program
    cleanSeen,      \* processes recorded in the map when cleanup listed it
    asked           \* processes cleanup has called terminate() on

mainVars == <<mainPc, cleanTodo, cleanProc, cleanWaited, cleanSeen, asked>>

\* the main thread is in app.run
MainQuiet ==
    /\ mainPc = "serving"
    /\ cleanTodo = {}
    /\ cleanProc = NoPid
    /\ cleanWaited = 0
    /\ cleanSeen = {}
    /\ asked = {}

vars == <<scenarioDir, supVars, procVars, threadVars, histVars, storeVars,
         callVars, raceVars, mainVars>>

\* ------------------------------------------------------------------- Init
Init ==
    /\ scenarioDir \in SUBSET AllFiles
    /\ running_scenarios = EmptyMap
    /\ scenarios_lock = NoThread
    /\ procState = [p \in Pids |-> "unborn"]
    /\ procName = [p \in Pids |-> NoName]
    /\ nextPid = 1
    /\ pc = [t \in Threads |-> "idle"]
    /\ op = [t \in Threads |-> "none"]
    /\ arg = [t \in Threads |-> NoName]
    /\ scenarios = [t \in Threads |-> {}]
    /\ proc = [t \in Threads |-> NoPid]
    /\ waited = [t \in Threads |-> 0]
    /\ result = [t \in Threads |-> ResNone]
    /\ statusOut = [t \in Threads |-> EmptyMap]
    /\ todo = [t \in Threads |-> {}]
    /\ entryAtCheck = [t \in Threads |-> "none"]
    /\ seenSpawn = [t \in Threads |-> {}]
    /\ scenario = "single"
    /\ controlFile = AbsentFile
    /\ StoreQuiet
    /\ MainQuiet
    /\ CallQuiet
    /\ RaceQuiet

\* ------------------------------------------------------------ environment
\* a file appears in / disappears from scenarios/
AddFile(f) ==
    /\ f \in AllFiles \ scenarioDir
    /\ scenarioDir' = scenarioDir \cup {f}
    /\ UNCHANGED <<supVars, procVars, threadVars, histVars, storeVars,
                   callVars, raceVars, mainVars>>

RemoveFile(f) ==
    /\ f \in scenarioDir
    /\ scenarioDir' = scenarioDir \ {f}
    /\ UNCHANGED <<supVars, procVars, threadVars, histVars, storeVars,
                   callVars, raceVars, mainVars>>

\* a scenario process ends: on its own, after SIGTERM (the scenario's
\* _shutdown handler ends its loop), or after SIGKILL
ProcExit(p) ==
    /\ procState[p] \in LiveStates
    /\ procState' = [procState EXCEPT ![p] = "exited"]
    /\ UNCHANGED <<mainVars, callVars, raceVars, storeVars,
                   scenarioDir, supVars, procName, nextPid, threadVars,
                   histVars>>

\* one time unit passes for a thread blocked in proc.wait(timeout=5); wait
\* blocks only while the process has not exited
Tick(t) ==
    /\ pc[t] = "stop_wait"
    /\ PollIsNone(proc[t])
    /\ waited[t] < StopTimeout
    /\ waited' = [waited EXCEPT ![t] = @ + 1]
    /\ UNCHANGED <<mainVars, callVars, raceVars, storeVars,
                   scenarioDir, supVars, procVars, pc, op, arg, scenarios,
                   proc, result, statusOut, todo, histVars>>

\* ------------------------------------------------- request entry and exit
\* a request for handler o with scenario_name n arrives on an idle thread
Enter(t, o, n) ==
    /\ Idle(t)
    /\ op' = [op EXCEPT ![t] = o]
    /\ arg' = [arg EXCEPT ![t] = n]
    /\ result' = [result EXCEPT ![t] = ResNone]

\* the handler returns r: the thread is idle again and its frame is gone
Leave(t, r) ==
    /\ pc' = [pc EXCEPT ![t] = "idle"]
    /\ result' = [result EXCEPT ![t] = r]
    /\ op' = [op EXCEPT ![t] = "none"]
    /\ arg' = [arg EXCEPT ![t] = NoName]
    /\ scenarios' = [scenarios EXCEPT ![t] = {}]
    /\ proc' = [proc EXCEPT ![t] = NoPid]
    /\ waited' = [waited EXCEPT ![t] = 0]
    /\ todo' = [todo EXCEPT ![t] = {}]
    /\ statusOut' = [statusOut EXCEPT ![t] = EmptyMap]
    /\ entryAtCheck' = [entryAtCheck EXCEPT ![t] = "none"]
    /\ seenSpawn' = [seenSpawn EXCEPT ![t] = {}]

\* as Leave, for the call that spawned process p: every other start call
\* for the same name that is still in progress has now overlapped a spawn
LeaveAndTell(t, r, p) ==
    /\ pc' = [pc EXCEPT ![t] = "idle"]
    /\ result' = [result EXCEPT ![t] = r]
    /\ op' = [op EXCEPT ![t] = "none"]
    /\ arg' = [arg EXCEPT ![t] = NoName]
    /\ scenarios' = [scenarios EXCEPT ![t] = {}]
    /\ proc' = [proc EXCEPT ![t] = NoPid]
    /\ waited' = [waited EXCEPT ![t] = 0]
    /\ todo' = [todo EXCEPT ![t] = {}]
    /\ statusOut' = [statusOut EXCEPT ![t] = EmptyMap]
    /\ entryAtCheck' = [entryAtCheck EXCEPT ![t] = "none"]
    /\ seenSpawn' = [u \in Threads |->
          IF u = t THEN {}
          ELSE IF op[u] = "start" /\ arg[u] = arg[t]
               THEN seenSpawn[u] \cup {p} ELSE seenSpawn[u]]

\* ---------------------------------------------------------- start_scenario
\* line 109-111: scenarios = discover_scenarios(); unknown name -> error
StartCall(t, n) ==
    /\ Enter(t, "start", n)
    /\ LET found == discover_scenarios(scenarioDir) IN
        /\ scenarios' = [scenarios EXCEPT ![t] = found]
        /\ pc' = [pc EXCEPT ![t] =
                    IF n \in found THEN "start_check" ELSE "start_notfound"]
    /\ UNCHANGED <<mainVars, callVars, raceVars, storeVars,
                   scenarioDir, supVars, procVars, proc, waited, statusOut,
                   todo, histVars>>

\* line 111: return {"error": ... not found}
StartNotFound(t) ==
    /\ pc[t] = "start_notfound"
    /\ Leave(t, ResNotFound)
    /\ UNCHANGED <<mainVars, callVars, raceVars, storeVars,
                   scenarioDir, supVars, procVars>>

\* mutant: the poll is inverted (proc.poll() is not None)
StartCheckInvertedPoll(t) ==
    /\ pc[t] = "start_check"
    /\ LockFree
    /\ LET n == arg[t] IN
        IF HasEntry(n) /\ ~PollIsNone(running_scenarios[n].process)
        THEN /\ Leave(t, ResAlreadyRunning)
             /\ UNCHANGED scenarios_lock
        ELSE /\ pc' = [pc EXCEPT ![t] = "start_spawn"]
             /\ scenarios_lock' = t
             /\ entryAtCheck' = [entryAtCheck EXCEPT ![t] =
                                    IF HasEntry(n) THEN "exited" ELSE "absent"]
             /\ UNCHANGED <<op, arg, scenarios, proc, waited, result,
                            statusOut, todo, seenSpawn>>
    /\ UNCHANGED <<mainVars, callVars, raceVars, storeVars,
                   scenarioDir, running_scenarios, procVars>>

\* line 113-117: take the lock, look the name up, poll the recorded process
StartCheck(t) ==
    /\ pc[t] = "start_check"
    /\ LockFree
    /\ LET n == arg[t] IN
        IF HasEntry(n) /\ PollIsNone(running_scenarios[n].process)
        THEN \* return inside `with`: the lock is released again
             /\ Leave(t, ResAlreadyRunning)
             /\ UNCHANGED scenarios_lock
        ELSE /\ pc' = [pc EXCEPT ![t] = "start_spawn"]
             /\ scenarios_lock' = t
             /\ entryAtCheck' = [entryAtCheck EXCEPT ![t] =
                                    IF HasEntry(n) THEN "exited" ELSE "absent"]
             /\ UNCHANGED <<op, arg, scenarios, proc, waited, result,
                            statusOut, todo, seenSpawn>>
    /\ UNCHANGED <<mainVars, callVars, raceVars, storeVars,
                   scenarioDir, running_scenarios, procVars>>

\* mutant: an entry already in the map is kept (setdefault)
StartSpawnOkKeepEntry(t) ==
    /\ pc[t] = "start_spawn"
    /\ nextPid <= MaxProcs
    /\ LET n == arg[t]
           p == nextPid IN
        /\ procState' = [procState EXCEPT ![p] = "alive"]
        /\ procName' = [procName EXCEPT ![p] = n]
        /\ nextPid' = nextPid + 1
        /\ running_scenarios' =
              IF HasEntry(n) THEN running_scenarios
              ELSE DictSet(running_scenarios, n, [process |-> p, pid |-> p])
    /\ LeaveAndTell(t, ResStarted, nextPid)
    /\ scenarios_lock' = NoThread
    /\ UNCHANGED <<mainVars, callVars, raceVars, storeVars, scenarioDir>>

\* line 120-132: Popen succeeds, the entry is (re)written
StartSpawnOk(t) ==
    /\ pc[t] = "start_spawn"
    /\ nextPid <= MaxProcs
    /\ LET n == arg[t]
           p == nextPid IN
        /\ procState' = [procState EXCEPT ![p] = "alive"]
        /\ procName' = [procName EXCEPT ![p] = n]
        /\ nextPid' = nextPid + 1
        /\ running_scenarios' =
              DictSet(running_scenarios, n, [process |-> p, pid |-> p])
    /\ LeaveAndTell(t, ResStarted, nextPid)
    /\ scenarios_lock' = NoThread
    /\ UNCHANGED <<mainVars, callVars, raceVars, storeVars, scenarioDir>>

\* mutant: the failed call returns without giving the lock back
StartSpawnFailKeepLock(t) ==
    /\ pc[t] = "start_spawn"
    /\ Leave(t, ResSpawnError)
    /\ scenarios_lock' = t
    /\ UNCHANGED <<mainVars, callVars, raceVars, storeVars,
                   scenarioDir, running_scenarios, procVars>>

\* line 133-134: Popen raises, the error is returned
StartSpawnFail(t) ==
    /\ pc[t] = "start_spawn"
    /\ Leave(t, ResSpawnError)
    /\ scenarios_lock' = NoThread
    /\ UNCHANGED <<mainVars, callVars, raceVars, storeVars,
                   scenarioDir, running_scenarios, procVars>>

\* ----------------------------------------------------------- stop_scenario
StopCall(t, n) ==
    /\ Enter(t, "stop", n)
    /\ pc' = [pc EXCEPT ![t] = "stop_check"]
    /\ UNCHANGED <<mainVars, callVars, raceVars, storeVars,
                   scenarioDir, supVars, procVars, scenarios, proc, waited,
                   statusOut, todo, histVars>>

\* mutant: a missing entry counts as a successful stop
StopNotRunningAsStopped(t) ==
    /\ pc[t] = "stop_check"
    /\ LockFree
    /\ ~HasEntry(arg[t])
    /\ Leave(t, ResStopped)
    /\ UNCHANGED <<mainVars, callVars, raceVars, storeVars,
                   scenarioDir, supVars, procVars>>

\* line 139-141: take the lock; no entry -> error
StopNotRunning(t) ==
    /\ pc[t] = "stop_check"
    /\ LockFree
    /\ ~HasEntry(arg[t])
    /\ Leave(t, ResNotRunning)
    /\ UNCHANGED <<mainVars, callVars, raceVars, storeVars,
                   scenarioDir, supVars, procVars>>

\* line 139-143: take the lock; proc = the recorded process
StopCheck(t) ==
    /\ pc[t] = "stop_check"
    /\ LockFree
    /\ HasEntry(arg[t])
    /\ scenarios_lock' = t
    /\ pc' = [pc EXCEPT ![t] = "stop_terminate"]
    /\ proc' = [proc EXCEPT ![t] = running_scenarios[arg[t]].process]
    /\ entryAtCheck' = [entryAtCheck EXCEPT ![t] =
          IF PollIsNone(running_scenarios[arg[t]].process)
          THEN "alive" ELSE "exited"]
    /\ UNCHANGED <<mainVars, callVars, raceVars, storeVars,
                   scenarioDir, running_scenarios, procVars, op, arg,
                   scenarios, waited, result, statusOut, todo, seenSpawn>>

\* line 145: proc.terminate() returns
StopTerminate(t) ==
    /\ pc[t] = "stop_terminate"
    /\ procState' = [procState EXCEPT ![proc[t]] = SendSignal(@, "sigterm")]
    /\ pc' = [pc EXCEPT ![t] = "stop_wait"]
    /\ waited' = [waited EXCEPT ![t] = 0]
    /\ UNCHANGED <<mainVars, callVars, raceVars, storeVars,
                   scenarioDir, supVars, procName, nextPid, op, arg,
                   scenarios, proc, result, statusOut, todo, histVars>>

\* line 145, 153-154: os.kill inside proc.terminate() raises; the handler
\* returns the error; the entry is not deleted
StopTerminateRaises(t) ==
    /\ pc[t] = "stop_terminate"
    /\ PollIsNone(proc[t])
    /\ Leave(t, ResStopError)
    /\ scenarios_lock' = NoThread
    /\ UNCHANGED <<mainVars, callVars, raceVars, storeVars,
                   scenarioDir, running_scenarios, procVars>>

\* mutant: the entry is not deleted
StopWaitReturnsNoDel(t) ==
    /\ pc[t] = "stop_wait"
    /\ ~PollIsNone(proc[t])
    /\ Leave(t, ResStopped)
    /\ scenarios_lock' = NoThread
    /\ UNCHANGED <<mainVars, callVars, raceVars, storeVars,
                   scenarioDir, running_scenarios, procVars>>

\* line 146-148: proc.wait returns because the process has exited
StopWaitReturns(t) ==
    /\ pc[t] = "stop_wait"
    /\ ~PollIsNone(proc[t])
    /\ running_scenarios' = DictDel(running_scenarios, arg[t])
    /\ Leave(t, ResStopped)
    /\ scenarios_lock' = NoThread
    /\ UNCHANGED <<mainVars, callVars, raceVars, storeVars, scenarioDir,
                   procVars>>

\* mutant: the timeout handler does not kill
StopWaitTimeoutNoKill(t) ==
    /\ pc[t] = "stop_wait"
    /\ PollIsNone(proc[t])
    /\ waited[t] = StopTimeout
    /\ running_scenarios' = DictDel(running_scenarios, arg[t])
    /\ Leave(t, ResKilled)
    /\ scenarios_lock' = NoThread
    /\ UNCHANGED <<mainVars, callVars, raceVars, storeVars, scenarioDir,
                   procVars>>

\* line 149-152: proc.wait raises TimeoutExpired; kill, delete, return
StopWaitTimeout(t) ==
    /\ pc[t] = "stop_wait"
    /\ PollIsNone(proc[t])
    /\ waited[t] = StopTimeout
    /\ procState' = [procState EXCEPT ![proc[t]] = SendSignal(@, "sigkill")]
    /\ running_scenarios' = DictDel(running_scenarios, arg[t])
    /\ Leave(t, ResKilled)
    /\ scenarios_lock' = NoThread
    /\ UNCHANGED <<mainVars, callVars, raceVars, storeVars,
                   scenarioDir, procName, nextPid>>

\* ----------------------------------------------------- get_scenario_status
\* line 212: scenarios = discover_scenarios()
StatusCall(t) ==
    /\ Enter(t, "status", NoName)
    /\ LET found == discover_scenarios(scenarioDir) IN
        /\ scenarios' = [scenarios EXCEPT ![t] = found]
        /\ statusOut' = [statusOut EXCEPT ![t] =
                            [n \in found |-> DiscoveredEntry]]
        /\ todo' = [todo EXCEPT ![t] = found]
    /\ pc' = [pc EXCEPT ![t] = "status_lock"]
    /\ UNCHANGED <<mainVars, callVars, raceVars, storeVars,
                   scenarioDir, supVars, procVars, proc, waited, histVars>>

\* line 214: with _scenarios_lock
StatusLock(t) ==
    /\ pc[t] = "status_lock"
    /\ LockFree
    /\ scenarios_lock' = t
    /\ pc' = [pc EXCEPT ![t] = "status_loop"]
    /\ UNCHANGED <<mainVars, callVars, raceVars, storeVars,
                   scenarioDir, running_scenarios, procVars, op, arg,
                   scenarios, proc, waited, result, statusOut, todo,
                   histVars>>

\* mutant: an entry in the map is reported running without a poll
StatusEntryNoPoll(n, data) ==
    IF HasEntry(n)
    THEN [running |-> TRUE, pid |-> running_scenarios[n].process]
    ELSE data

\* line 216-223: the value the loop body leaves in data for name n
StatusEntry(n, data) ==
    IF HasEntry(n)
    THEN IF PollIsNone(running_scenarios[n].process)
         THEN [running |-> TRUE, pid |-> running_scenarios[n].process]
         ELSE [running |-> FALSE, pid |-> NoPid]
    ELSE data

\* line 215-223: one iteration of the loop over scenarios.items()
StatusVisit(t, n) ==
    /\ pc[t] = "status_loop"
    /\ n \in todo[t]
    /\ todo' = [todo EXCEPT ![t] = @ \ {n}]
    /\ statusOut' = [statusOut EXCEPT ![t][n] = StatusEntry(n, @)]
    /\ UNCHANGED <<mainVars, callVars, raceVars, storeVars,
                   scenarioDir, supVars, procVars, pc, op, arg, scenarios,
                   proc, waited, result, histVars>>

\* line 225: the loop is over, the lock is released, scenarios is returned
StatusReturn(t) ==
    /\ pc[t] = "status_loop"
    /\ todo[t] = {}
    /\ scenarios_lock' = NoThread
    /\ Leave(t, ResStatus)
    /\ UNCHANGED <<mainVars, callVars, raceVars, storeVars,
                   scenarioDir, running_scenarios, procVars>>

\* ------------------------------------------------------------------- Next
\* the supervisor and its scenario processes
NextSupervisor ==
    \/ \E p \in Pids : ProcExit(p)
    \/ \E t \in Threads : Tick(t)
    \/ \E t \in Threads, n \in ReqNames : StartCall(t, n)
    \/ \E t \in Threads : StartNotFound(t)
    \/ \E t \in Threads : StartCheck(t)
    \/ \E t \in Threads : StartSpawnOk(t)
    \/ \E t \in Threads : StartSpawnFail(t)
    \/ \E t \in Threads, n \in ReqNames : StopCall(t, n)
    \/ \E t \in Threads : StopNotRunning(t)
    \/ \E t \in Threads : StopCheck(t)
    \/ \E t \in Threads : StopTerminate(t)
    \/ \E t \in Threads : StopTerminateRaises(t)
    \/ \E t \in Threads : StopWaitReturns(t)
    \/ \E t \in Threads : StopWaitTimeout(t)
    \/ \E t \in Threads : StatusCall(t)
    \/ \E t \in Threads : StatusLock(t)
    \/ \E t \in Threads, n \in ReqNames : StatusVisit(t, n)
    \/ \E t \in Threads : StatusReturn(t)

Next ==
    \/ \E f \in AllFiles : AddFile(f)
    \/ \E f \in AllFiles : RemoveFile(f)
    \/ NextSupervisor

Spec == Init /\ [][Next]_vars

TypeOK ==
    /\ scenarioDir \subseteq AllFiles
    /\ DOMAIN running_scenarios \subseteq ReqNames
    /\ scenarios_lock \in Threads \cup {NoThread, MainThread}
    /\ nextPid \in 1..(MaxProcs + 1)
    /\ \A t \in Threads : waited[t] \in 0..StopTimeout

\* a scenario process that was sent SIGKILL ends: the kernel guarantees it
KilledExit(p) == procState[p] = "sigkill" /\ ProcExit(p)

\* the supervisor over a scenarios/ folder that does not change while it
\* runs, with the kernel's guarantee about SIGKILL
FairSpec ==
    /\ Init
    /\ [][NextSupervisor]_vars
    /\ \A p \in Pids : WF_vars(KilledExit(p))

\* ---------------------------------------------------- vocabulary of claims
\* thread t returns from its handler in this step
Returns(t) == pc[t] # "idle" /\ pc'[t] = "idle"

\* the map holds an entry for n whose process has not exited
RecordedAlive(n) == HasEntry(n) /\ PollIsNone(running_scenarios[n].process)

\* processes spawned for n that have not exited
AliveFor(n) == { p \in Pids : procName[p] = n /\ procState[p] \in LiveStates }

\* what a status() visit of n would report in the current state
Reported(n) == StatusEntry(n, DiscoveredEntry)

C3_AtMostOneAlive ==
    \A n \in ReqNames : Cardinality(AliveFor(n)) <= 1

\* ------------------------------------------------------------------- C4
\* C4 as claimed: stop(name) for a name with no live process (no entry, or
\* an entry whose process had exited when stop looked it up) returns the
\* 'not running' error.
C4_Original ==
    [][\A t \in Threads :
        (op[t] = "stop" /\ Returns(t) /\ entryAtCheck[t] # "alive")
        => result'[t] = ResNotRunning]_vars

\* C4 as amended: stop(name) returns 'not running' exactly when the map has
\* no entry for name; for a name whose process exited on its own and whose
\* entry is still in the map, stop removes the stale entry and returns
\* 'stopped'.
C4_StopNotRunning ==
    [][\A t \in Threads :
        (op[t] = "stop" /\ Returns(t))
        => /\ (result'[t] = ResNotRunning) <=> (pc[t] = "stop_check")
           /\ pc[t] = "stop_check" => ~HasEntry(arg[t])
           /\ entryAtCheck[t] = "exited"
                => /\ result'[t] = ResStopped
                   /\ ~(arg[t] \in DOMAIN running_scenarios')]_vars

C4_Witness ==
    \E t \in Threads :
        /\ pc[t] = "stop_wait"
        /\ entryAtCheck[t] = "exited"

\* ------------------------------------------------------------------- C5
\* C5: stop(name) for a name with no entry in the map returns 'not running',
\* signals no process and leaves the map unchanged.
C5_StopNoEntry ==
    [][\A t \in Threads :
        (pc[t] = "stop_check" /\ pc'[t] # "stop_check"
            /\ ~HasEntry(arg[t]))
        => /\ Returns(t)
           /\ result'[t] = ResNotRunning
           /\ procState' = procState
           /\ running_scenarios' = running_scenarios]_vars

C5_Witness ==
    \E t \in Threads : result[t] = ResNotRunning

\* ------------------------------------------------------------------- C6
\* C6: once stop(name) of a running scenario has returned, a status() visit
\* of name reports running false and pid None, and keeps doing so until a
\* start(name) succeeds.
C6_StoppedReportsNotRunning ==
    [][/\ \A t \in Threads, n \in ReqNames :
            (op[t] = "stop" /\ arg[t] = n /\ Returns(t)
                /\ entryAtCheck[t] = "alive")
            => Reported(n)' = DiscoveredEntry
       /\ \A n \in ReqNames :
            (~Reported(n).running /\ Reported(n)'.running)
            => \E t \in Threads :
                    /\ op[t] = "start" /\ arg[t] = n
                    /\ Returns(t) /\ result'[t] = ResStarted]_vars

\* ------------------------------------------------------------------- C7
\* C7: every return of stop(name) that found an entry has removed it.
C7_StopRemovesEntry ==
    [][\A t \in Threads :
        (op[t] = "stop" /\ Returns(t) /\ entryAtCheck[t] # "none")
        => ~(arg[t] \in DOMAIN running_scenarios')]_vars

C9_StatusReport ==
    [][\A t \in Threads :
        /\ \A n \in ReqNames :
            (pc[t] = "status_loop" /\ n \in todo[t] /\ n \notin todo'[t])
            => statusOut'[t][n] =
                  IF RecordedAlive(n)
                  THEN [running |-> TRUE, pid |-> running_scenarios[n].pid]
                  ELSE [running |-> FALSE, pid |-> NoPid]
        /\ (op[t] = "status" /\ (pc'[t] # pc[t] \/ todo'[t] # todo[t]))
            => running_scenarios' = running_scenarios
        /\ (pc[t] = "idle" /\ op'[t] = "status")
            => /\ running_scenarios' = running_scenarios
               /\ DOMAIN statusOut'[t] = discover_scenarios(scenarioDir)]_vars

C9_Witness ==
    \E t \in Threads, n \in ReqNames :
        /\ pc[t] = "status_loop"
        /\ n \in DOMAIN statusOut[t] \ todo[t]
        /\ HasEntry(n)
        /\ ~PollIsNone(running_scenarios[n].process)
        /\ statusOut[t][n] = [running |-> FALSE, pid |-> NoPid]

\* ------------------------------------------------------------------ C10
\* C10 as claimed: start(name) that finds a stale entry (its process has
\* exited) succeeds, spawning exactly one process and replacing the entry.
C10_Original ==
    [][\A t \in Threads :
        (op[t] = "start" /\ Returns(t) /\ entryAtCheck[t] = "exited")
        => result'[t] = ResStarted]_vars

\* C10 as amended: start(name) that finds a stale entry is never refused as
\* 'already running'; when Popen succeeds it spawns exactly one process and
\* replaces the stale entry with it; when Popen raises it returns that error
\* and spawns nothing, the stale entry staying in the map.
C10_StaleEntryReplaced ==
    [][\A t \in Threads :
        (op[t] = "start" /\ Returns(t) /\ entryAtCheck[t] = "exited")
        => LET n == arg[t]
               old == running_scenarios[n].process IN
           /\ result'[t] \in {ResStarted, ResSpawnError}
           /\ result'[t] = ResStarted
                => /\ nextPid' = nextPid + 1
                   /\ procState'[nextPid] = "alive"
                   /\ procName'[nextPid] = n
                   /\ \A q \in Pids \ {nextPid} : procState'[q] = procState[q]
                   /\ running_scenarios'[n] =
                        [process |-> nextPid, pid |-> nextPid]
                   /\ old # nextPid
           /\ result'[t] = ResSpawnError
                => /\ procState' = procState
                   /\ nextPid' = nextPid
                   /\ running_scenarios' = running_scenarios]_vars

C10_Witness ==
    \E t \in Threads :
        /\ pc[t] = "start_spawn"
        /\ entryAtCheck[t] = "exited"
        /\ nextPid <= MaxProcs

\* ------------------------------------------------------------------ C11
\* C11: a start(name) that fails because name is not discovered or because
\* Popen raises returns an error result, creates no process, leaves the
\* running map as it was and does not keep the lock, so that later start,
\* stop and status calls are served: no idle thread ever holds the lock.
C11_FailedStartHarmless ==
    /\ [](\A t \in Threads : pc[t] = "idle" => scenarios_lock # t)
    /\ [][\A t \in Threads :
            /\ (pc[t] = "start_notfound" /\ pc'[t] # pc[t])
                 => (Returns(t) /\ result'[t] = ResNotFound)
            /\ (pc[t] = "start_spawn" /\ pc'[t] # pc[t])
                 => (Returns(t) /\ result'[t] \in {ResStarted, ResSpawnError})
            /\ (op[t] = "start" /\ Returns(t)
                    /\ result'[t] \in {ResNotFound, ResSpawnError})
                 => /\ procState' = procState
                    /\ procName' = procName
                    /\ nextPid' = nextPid
                    /\ running_scenarios' = running_scenarios
                    /\ scenarios_lock' # t]_vars

\* a start has failed at Popen and another call runs under the lock after it
C11_Witness ==
    \E t \in Threads, u \in Threads :
        /\ t # u
        /\ pc[t] = "idle"
        /\ result[t] = ResSpawnError
        /\ scenarios_lock = u
        /\ pc[u] \in {"start_spawn", "stop_terminate", "stop_wait"}

\* ================================================== fault pattern store
\* One control request of the supervisor at a time (toggle_pattern, set_rpm)
\* and the process of one scenario, which run concurrently.  Library
\* behaviour assumed: open(path, "w") truncates the file at once; the text
\* json.dump produces reaches the file when the `with` block closes it.

supAll == <<scenarioDir, supVars, procVars, threadVars, histVars, mainVars>>

\* the handler returns: its frame is gone
CtlReturn(r) ==
    /\ cresult' = r
    /\ cpc' = "idle"
    /\ ckey' = NoKey
    /\ cval' = NoValue
    /\ patterns' = EmptyDict
    /\ cprev' = EmptyDict

\* line 187-189 / 197-199: patterns = load_patterns(...); patterns[k] = v;
\* save_patterns opens the file with open(control_file, "w"), which
\* truncates it.  Item assignment on a value that is not a dict raises
\* TypeError, which nothing catches: the request ends with an exception.
\* Nothing but this handler writes the file, so the load, the assignment and
\* the open are one step.
LoadAndAssign(k, v) ==
    /\ cpc = "idle"
    /\ LET l == load_patterns(controlFile) IN
        IF l.kind = "dict"
        THEN /\ cprev' = l.d
             /\ patterns' = DictSet(l.d, k, v)
             /\ ckey' = k
             /\ cval' = v
             /\ cpc' = "save_dump"
             /\ cresult' = "none"
             /\ controlFile' = FileWith(<<>>)
        ELSE /\ cresult' = "exception"
             /\ UNCHANGED <<cpc, ckey, cval, patterns, cprev, controlFile>>
    /\ UNCHANGED <<scenario, simVars, simHist, supAll,
                   callVars, raceVars>>

\* api_toggle_pattern / toggle_pattern up to json.dump
toggle_pattern(p, e) == LoadAndAssign(p, e)

\* api_set_rpm / set_rpm up to json.dump
set_rpm(r) == LoadAndAssign("rpm", JInt(Clamp(r)))

\* line 187-191 / 197-201 when open raises: save_patterns returns False
\* (line 181-182), the handler returns its error, the file is as it was
SaveOpenFails ==
    /\ cpc = "idle"
    /\ load_patterns(controlFile).kind = "dict"
    /\ CtlReturn("error")
    /\ UNCHANGED <<scenario, controlFile, simVars, simHist, supAll,
                   callVars, raceVars>>

\* save_patterns line 179-180 and the handler's return of "ok"
SaveDump ==
    /\ cpc = "save_dump"
    /\ controlFile' = FileWith(Dump(patterns))
    /\ CtlReturn("ok")
    /\ stored' = patterns
    /\ pending' = TRUE
    /\ expectRate' = NoValue
    /\ UNCHANGED <<scenario, simVars, rpmRead, teardownRaised, firstSession,
                   supAll,
                   callVars, raceVars>>

\* ------------------------------------------------------ scenario process
SimAlive == simPc \notin {"unborn", "exited"}

\* the rate a completed save asks the coming iteration to use
RateAsked == IF pending THEN DictGet(stored, "rpm", JInt(DefaultRpm))
             ELSE NoValue

\* the supervisor spawns the scenario (python scenarios/<scenario>.py): module
\* level code runs, main() is entered
SimStart ==
    /\ simPc \in {"unborn", "exited"}
    /\ simPc' = "loop"
    /\ running' = TRUE
    /\ simPatterns' = AsDict(IF scenario = "astroshop" THEN AstroPatterns
                             ELSE EmptyDict)
    /\ rpm' = NoValue
    /\ sleep_time' = 0
    /\ crashed' = FALSE
    /\ rpmRead' = NoValue
    /\ teardownRaised' = FALSE
    /\ expectRate' = NoValue
    /\ firstSession' = TRUE
    /\ UNCHANGED <<ctlVars, stored, pending, supAll,
                   callVars, raceVars>>

\* _shutdown: SIGTERM or SIGINT clears `running`
Signal ==
    /\ SimAlive
    /\ running
    /\ running' = FALSE
    /\ UNCHANGED <<ctlVars, simPc, simPatterns, rpm, sleep_time, crashed,
                   simHist, supAll,
                   callVars, raceVars>>

\* single.py line 90-93: `while running`, patterns = load_patterns()
SingleIterate ==
    /\ scenario = "single"
    /\ simPc = "loop"
    /\ running
    /\ simPatterns' = load_patterns(controlFile)
    /\ simPc' = "get_rpm"
    /\ rpmRead' = NoValue
    /\ pending' = FALSE
    /\ expectRate' = RateAsked
    /\ UNCHANGED <<ctlVars, running, rpm, sleep_time, crashed, stored,
                   teardownRaised, firstSession, supAll,
                   callVars, raceVars>>

\* single.py line 94: rpm = get_rpm() reads the file again; .get on a value
\* that is not a dict raises AttributeError, caught at line 126 with rpm
\* left as it was
SingleGetRpm ==
    /\ simPc = "get_rpm"
    /\ LET l == load_patterns(controlFile) IN
        /\ IF l.kind = "dict"
           THEN /\ rpm' = DictGet(l.d, "rpm", JInt(DefaultRpm))
                /\ rpmRead' = DictGet(l.d, "rpm", JInt(DefaultRpm))
                /\ simPc' = "session"
           ELSE /\ simPc' = "sleep_calc"
                /\ UNCHANGED <<rpm, rpmRead>>
    /\ UNCHANGED <<ctlVars, running, simPatterns, sleep_time, crashed, stored,
                   pending, teardownRaised, expectRate, firstSession, supAll,
                   callVars, raceVars>>

\* single.py line 96-127: the session; an exception in it is logged.  The
\* local `patterns` is not read again before line 93 assigns it anew.
SingleSession ==
    /\ simPc = "session"
    /\ simPc' = "sleep_calc"
    /\ simPatterns' = AsDict(EmptyDict)
    /\ UNCHANGED <<ctlVars, running, rpm, sleep_time, crashed, simHist,
                   supAll,
                   callVars, raceVars>>

\* 60.0 / rpm and time.sleep of it raise for an unbound rpm, for a value that
\* is not a number, for zero and for a negative number
PauseRaises(v) == v = NoValue \/ ~IsNumber(v) \/ v.n <= 0

\* mutant: the pause is a fixed second
PauseOfOneSecond(v) == 1000

\* sleep_time = 60.0 / rpm, in milliseconds
PauseOf(v) == MsPerMinute \div v.n

\* single.py line 131-132, outside the inner try: an exception here leaves
\* the loop and main through `finally`
SingleSleepCalc ==
    /\ simPc = "sleep_calc"
    /\ IF PauseRaises(rpm)
       THEN /\ crashed' = TRUE
            /\ simPc' = "flush"
            /\ UNCHANGED sleep_time
       ELSE /\ sleep_time' = PauseOf(rpm)
            /\ simPc' = "sleeping"
            /\ UNCHANGED crashed
    /\ UNCHANGED <<ctlVars, running, simPatterns, rpm, simHist, supAll,
                   callVars, raceVars>>

\* service-tree.py line 162-166, astroshop.py line 390-394: `while running`
\* and one session; neither file reads the control record
OtherIterate ==
    /\ scenario # "single"
    /\ simPc = "loop"
    /\ running
    /\ simPc' = "pause"
    /\ rpmRead' = NoValue
    /\ pending' = FALSE
    /\ expectRate' = RateAsked
    /\ UNCHANGED <<ctlVars, running, simPatterns, rpm, sleep_time, crashed,
                   stored, teardownRaised, firstSession, supAll,
                   callVars, raceVars>>

\* service-tree.py line 168, astroshop.py line 395: time.sleep(random.uniform)
OtherPause(ms) ==
    /\ simPc = "pause"
    /\ ms \in (IF scenario = "astroshop" THEN AstroPauses ELSE TreePauses)
    /\ sleep_time' = ms
    /\ simPc' = "sleeping"
    /\ UNCHANGED <<ctlVars, running, simPatterns, rpm, crashed, simHist,
                   supAll,
                   callVars, raceVars>>

\* time.sleep returns; a signal handled meanwhile does not cut it short
Wake ==
    /\ simPc = "sleeping"
    /\ simPc' = "loop"
    /\ sleep_time' = 0
    /\ rpmRead' = NoValue
    /\ expectRate' = NoValue
    /\ firstSession' = FALSE
    /\ UNCHANGED <<ctlVars, running, simPatterns, rpm, crashed, stored,
                   pending, teardownRaised, supAll,
                   callVars, raceVars>>

\* `while running` is false: the loop ends and `finally` begins
LoopEnd ==
    /\ simPc = "loop"
    /\ ~running
    /\ simPc' = "flush"
    /\ UNCHANGED <<ctlVars, running, simPatterns, rpm, sleep_time, crashed,
                   simHist, supAll,
                   callVars, raceVars>>

\* finally: force_flush(), an exception of it is swallowed
Flush(raises) ==
    /\ simPc = "flush"
    /\ simPc' = "shutdown"
    /\ teardownRaised' = (teardownRaised \/ raises)
    /\ UNCHANGED <<ctlVars, running, simPatterns, rpm, sleep_time, crashed,
                   rpmRead, stored, pending, expectRate,
                   firstSession, supAll,
                   callVars, raceVars>>

\* finally: shutdown(), an exception of it is swallowed; main returns, or
\* the exception that left the loop ends the process with a traceback
Shutdown(raises) ==
    /\ simPc = "shutdown"
    /\ simPc' = "exited"
    /\ teardownRaised' = (teardownRaised \/ raises)
    /\ UNCHANGED <<ctlVars, running, simPatterns, rpm, sleep_time, crashed,
                   rpmRead, stored, pending, expectRate,
                   firstSession, supAll,
                   callVars, raceVars>>

StoreInit ==
    /\ scenarioDir = AllFiles
    /\ running_scenarios = EmptyMap
    /\ scenarios_lock = NoThread
    /\ procState = [p \in Pids |-> "unborn"]
    /\ procName = [p \in Pids |-> NoName]
    /\ nextPid = 1
    /\ pc = [t \in Threads |-> "idle"]
    /\ op = [t \in Threads |-> "none"]
    /\ arg = [t \in Threads |-> NoName]
    /\ scenarios = [t \in Threads |-> {}]
    /\ proc = [t \in Threads |-> NoPid]
    /\ waited = [t \in Threads |-> 0]
    /\ result = [t \in Threads |-> ResNone]
    /\ statusOut = [t \in Threads |-> EmptyMap]
    /\ todo = [t \in Threads |-> {}]
    /\ entryAtCheck = [t \in Threads |-> "none"]
    /\ seenSpawn = [t \in Threads |-> {}]
    /\ scenario \in ScenarioNames
    /\ controlFile \in InitialFiles
    /\ StoreQuiet
    /\ MainQuiet
    /\ CallQuiet
    /\ RaceQuiet

StoreNext ==
    \/ \E p \in PatternNames(scenario) :
          \E e \in EnabledVals(p) : toggle_pattern(p, e)
    \/ \E r \in RateVals : set_rpm(r)
    \/ SaveOpenFails
    \/ SaveDump
    \/ SimStart
    \/ Signal
    \/ SingleIterate
    \/ SingleGetRpm
    \/ SingleSession
    \/ SingleSleepCalc
    \/ OtherIterate
    \/ \E ms \in TreePauses \cup AstroPauses : OtherPause(ms)
    \/ Wake
    \/ LoopEnd
    \/ \E raises \in BOOLEAN : Flush(raises)
    \/ \E raises \in BOOLEAN : Shutdown(raises)

StoreSpec == StoreInit /\ [][StoreNext]_vars

\* ------------------------------------------------- vocabulary of claims
\* the control handler returns in this step
CtlReturns == cpc = "save_dump" /\ cpc' = "idle"

\* the record a load of the control file yields
Loaded == load_patterns(controlFile)

\* ------------------------------------------------------------------ C12
\* C12: for every integer r, setRate(name, r) assigns rpm = 1 for r below 1,
\* rpm = 1000 for r above 1000 and rpm = r otherwise, and that value is the
\* rpm of the record it saves; a request that returns the save error has
\* left the file as it was.
C12_RateClamped ==
    [][/\ \A r \in RateVals :
            (set_rpm(r) /\ cpc' = "save_dump")
            => /\ ckey' = "rpm"
               /\ cval' = JInt(IF r < 1 THEN 1 ELSE IF r > 1000 THEN 1000
                                ELSE r)
               /\ patterns'["rpm"] = cval'
       /\ (CtlReturns /\ ckey = "rpm")
            => /\ cresult' = "ok"
               /\ Loaded'.kind = "dict"
               /\ "rpm" \in DOMAIN Loaded'.d
               /\ Loaded'.d["rpm"] = cval
       /\ (cresult' = "error" /\ cresult # "error")
            => controlFile' = controlFile]_vars

\* setRate(name, 5000) has been served and has left rpm 1000 in the record
C12_Witness ==
    /\ cpc = "idle"
    /\ cresult = "ok"
    /\ Loaded.kind = "dict"
    /\ "rpm" \in DOMAIN Loaded.d
    /\ Loaded.d["rpm"] = JInt(1000)

\* get_rpm (src/app.py line 204-207, src/scenarios/single.py line 80-83):
\* patterns.get("rpm", 10) of a loaded dict
get_rpm(d) == DictGet(d, "rpm", JInt(DefaultRpm))

\* ------------------------------------------------------------------ C13
\* C13: after any sequence of setPattern (any pattern name, any enabled
\* value) and setRate (any integer) requests, the rpm obtained by loading the
\* record is an integer in [1,1000], the default 10 standing in for an unset
\* rpm; no request persists another rpm.
C13_RpmValid ==
    Loaded.kind = "dict"
    => /\ get_rpm(Loaded.d).t = "int"
       /\ get_rpm(Loaded.d).n \in 1..1000

\* ------------------------------------------------------------------ C14
\* C14: for any stored record, a setPattern or setRate that succeeds leaves
\* a record whose load is the record loaded before the request with exactly
\* the one key of the request set to its value: every other pattern flag and
\* the rpm keep their values, and no key is added or lost.
C14_OneKeyChanged ==
    [][/\ (cpc = "idle" /\ cpc' = "save_dump") => cprev' = Loaded.d
       /\ (CtlReturns /\ cresult' = "ok")
            => /\ Loaded'.kind = "dict"
               /\ DOMAIN Loaded'.d = DOMAIN cprev \cup {ckey}
               /\ Loaded'.d[ckey] = cval
               /\ \A k \in DOMAIN cprev \ {ckey} : Loaded'.d[k] = cprev[k]
      ]_vars

\* a request is about to save a record that holds a key it does not assign
C14_Witness ==
    /\ cpc = "save_dump"
    /\ DOMAIN cprev \ {ckey} # {}

\* ------------------------------------------------------------------ C15
\* C15: a load of the record by the scenario process (single.py line 93 and
\* line 94) that falls between the start and the end of a save by the
\* supervisor yields the complete record from before the save or the
\* complete record after it, never an empty or partly written one.
C15_ReaderSeesWholeRecord ==
    [][cpc = "save_dump"
        => /\ (simPc = "loop" /\ simPc' = "get_rpm")
                => simPatterns' \in {AsDict(cprev), AsDict(patterns)}
           /\ (simPc = "get_rpm" /\ simPc' # "get_rpm")
                => /\ simPc' = "session"
                   /\ rpm' \in {get_rpm(cprev), get_rpm(patterns)}]_vars

\* an iteration of the scenario's loop, and with it a session, begins
IterationBegins == simPc = "loop" /\ simPc' \in {"get_rpm", "pause"}

\* the pause between two sessions begins
PauseBegins == simPc # "sleeping" /\ simPc' = "sleeping"

\* the flag of the scenario's pattern in dict d, as a session tests it
FlagIn(d) == Truthy(DictGet(d, PatternOf(scenario), JBool(FALSE)))

\* ------------------------------------------------------------------ C16
\* C16: after a setPattern or setRate on a scenario whose process is running
\* (single, service-tree or astroshop), the first session the process begins
\* after the write consults the pattern flag of the saved record, and the
\* pause of that iteration is the one of the saved rate; the process is not
\* restarted for it.
C16_NextSessionUsesWrite ==
    [][/\ (IterationBegins /\ pending /\ ~firstSession)
            => /\ simPatterns'.kind = "dict"
               /\ FlagIn(simPatterns'.d) = FlagIn(stored)
       /\ (PauseBegins /\ ~firstSession /\ expectRate # NoValue
                /\ ~PauseRaises(expectRate))
            => sleep_time' = MsPerMinute \div expectRate.n]_vars

\* ------------------------------------------------------------------ C17
\* C17: in the loop of a scenario the pause after a session is 60/rpm, rpm
\* being the value read from the control record in the same iteration; a
\* rate written while the process sleeps leaves that pause as it is and is
\* the rate read by the next iteration.
C17_PauseFromRate ==
    [][/\ PauseBegins
            => /\ rpmRead # NoValue
               /\ sleep_time' = MsPerMinute \div rpmRead.n
       /\ (simPc = "get_rpm" /\ simPc' = "session")
            => rpmRead' = get_rpm(Loaded.d)
       /\ (simPc = "sleeping" /\ simPc' = "sleeping")
            => sleep_time' = sleep_time]_vars

\* ------------------------------------------------------------------ C18
\* C18: a scenario process goes on beginning sessions until SIGTERM or SIGINT
\* arrives: its loop is left only with `running` cleared.  After the signal
\* it begins no session once the current iteration has ended; it then calls
\* force_flush, then shutdown, and exits, also when one of them raises.
C18_RunsUntilSignal ==
    [][/\ (simPc \notin {"flush", "shutdown", "exited", "unborn"}
                /\ simPc' = "flush")
            => ~running
       /\ IterationBegins => running
       /\ (simPc = "flush" /\ simPc' # "flush") => simPc' = "shutdown"
       /\ (simPc = "shutdown" /\ simPc' # "shutdown") => simPc' = "exited"
       /\ (simPc # "exited" /\ simPc' = "exited") => simPc = "shutdown"
      ]_vars

\* ------------------------------------------------------------------ C19
\* C19: load returns the empty state for a record that is absent or cannot
\* be parsed, and whatever the control record holds (nothing, unparsable
\* text, a JSON value that is not a mapping, an rpm that is zero or not a
\* number) no exception leaves the loop of the scenario process.
C19_NoCrashOnAnyRecord ==
    /\ (~controlFile.exists
            \/ (~IsObjectText(controlFile.data)
                    /\ ~IsOtherJson(controlFile.data)))
        => Loaded = AsDict(EmptyDict)
    /\ ~crashed

\* ------------------------------------------------------------------ C20
\* C20: setPattern and setRate persist their value whether or not the
\* process of the scenario is running, and no step of them changes the
\* running map or a process; the first session of a process started after
\* the save consults the stored pattern flag, and the pause of its first
\* iteration is the one of the stored rate.
C20_WritesIndependentOfProcess ==
    [][/\ (ctlVars' # ctlVars)
            => /\ simVars' = simVars
               /\ running_scenarios' = running_scenarios
               /\ procState' = procState
       /\ CtlReturns
            => /\ cresult' = "ok"
               /\ Loaded'.kind = "dict"
               /\ ckey \in DOMAIN Loaded'.d
               /\ Loaded'.d[ckey] = cval
       /\ (IterationBegins /\ pending /\ firstSession)
            => /\ simPatterns'.kind = "dict"
               /\ FlagIn(simPatterns'.d) = FlagIn(stored)
       /\ (PauseBegins /\ firstSession /\ expectRate # NoValue
                /\ ~PauseRaises(expectRate))
            => sleep_time' = MsPerMinute \div expectRate.n]_vars

\* ================================================== supervisor, continued
\* health(): len(_running_scenarios), read without the lock
health == Cardinality(DOMAIN running_scenarios)

\* ------------------------------------------------------------------ C21
\* C21: in every reachable state the scenarios_running value of health
\* equals the number of scenario names that have a spawned process alive,
\* also after a process has exited on its own and while a start or a stop is
\* in progress.
C21_HealthCountsAlive ==
    health = Cardinality({ n \in ReqNames : AliveFor(n) # {} })

\* ----------------------------------------------- discovery over any folder
\* entries scenarios/ may hold: scenario files, a file with the exclusion
\* marker and a file that is not Python
HiddenFile == <<"_", "c">> \o PySuffix
TextFile == <<"d", ".", "t", "x", "t">>
DirFiles == AllFiles \cup {HiddenFile, TextFile}

\* any entry appears in / disappears from scenarios/
AddAnyFile(f) ==
    /\ f \in DirFiles \ scenarioDir
    /\ scenarioDir' = scenarioDir \cup {f}
    /\ UNCHANGED <<supVars, procVars, threadVars, histVars, storeVars,
                   callVars, raceVars, mainVars>>

RemoveAnyFile(f) ==
    /\ f \in scenarioDir
    /\ scenarioDir' = scenarioDir \ {f}
    /\ UNCHANGED <<supVars, procVars, threadVars, histVars, storeVars,
                   callVars, raceVars, mainVars>>

\* the start and status handlers over a folder that changes between and
\* during the calls
DiscoverNext ==
    \/ \E f \in DirFiles : AddAnyFile(f)
    \/ \E f \in DirFiles : RemoveAnyFile(f)
    \/ \E p \in Pids : ProcExit(p)
    \/ \E t \in Threads, n \in ReqNames : StartCall(t, n)
    \/ \E t \in Threads : StartNotFound(t)
    \/ \E t \in Threads : StartCheck(t)
    \/ \E t \in Threads : StartSpawnOk(t)
    \/ \E t \in Threads : StartSpawnFail(t)
    \/ \E t \in Threads : StatusCall(t)
    \/ \E t \in Threads : StatusLock(t)
    \/ \E t \in Threads, n \in ReqNames : StatusVisit(t, n)
    \/ \E t \in Threads : StatusReturn(t)

DiscoverSpec == Init /\ [][DiscoverNext]_vars

\* names of the scenario definitions in folder dir: the Python files whose
\* name does not begin with the exclusion marker, without their suffix
DefinitionsIn(dir) ==
    { n \in { <<"a">>, <<"b">>, <<"_", "c">>, <<"d">> } :
        /\ (n \o <<".", "p", "y">>) \in dir
        /\ n[1] # "_" }

\* ------------------------------------------------------------------ C22
\* C22: discover() returns exactly the scenario definitions that are in the
\* scenarios folder when it is called, without the names that begin with
\* '_', each with running False and pid None; nothing is cached: the start
\* and the status call work on the definitions present at their own call.
C22_DiscoverIsSnapshot ==
    /\ [](discover_scenarios(scenarioDir) = DefinitionsIn(scenarioDir))
    /\ [][\A t \in Threads :
            /\ (pc[t] = "idle" /\ pc'[t] = "status_lock")
                 => statusOut'[t] = [n \in DefinitionsIn(scenarioDir) |->
                                        [running |-> FALSE, pid |-> NoPid]]
            /\ (pc[t] = "idle" /\ pc'[t] \in {"start_check", "start_notfound"})
                 => /\ scenarios'[t] = DefinitionsIn(scenarioDir)
                    /\ (pc'[t] = "start_notfound")
                         <=> (arg'[t] \notin DefinitionsIn(scenarioDir))
          ]_vars

\* two calls in progress hold different snapshots, the folder holding a file
\* with the exclusion marker and a file that is not Python
C22_Witness ==
    /\ {HiddenFile, TextFile} \subseteq scenarioDir
    /\ \E t \in Threads, u \in Threads :
        /\ pc[t] = "status_lock"
        /\ pc[u] = "start_check"
        /\ scenarios[t] # scenarios[u]
        /\ scenarios[t] = discover_scenarios(scenarioDir)

\* =========================================================================
\* The call-graph simulator: the loop of main and the spans of one session
\* (src/scenarios/astroshop.py, service-tree.py, single.py)
\* =========================================================================

\* progress messages the stdout pipe and the process's own output buffer
\* take before a further write blocks
PipeCapacity == 1

\* the supervisor with nothing in progress and both scenario files present
SupervisorQuiet ==
    /\ scenarioDir = AllFiles
    /\ running_scenarios = EmptyMap
    /\ scenarios_lock = NoThread
    /\ procState = [p \in Pids |-> "unborn"]
    /\ procName = [p \in Pids |-> NoName]
    /\ nextPid = 1
    /\ pc = [t \in Threads |-> "idle"]
    /\ op = [t \in Threads |-> "none"]
    /\ arg = [t \in Threads |-> NoName]
    /\ scenarios = [t \in Threads |-> {}]
    /\ proc = [t \in Threads |-> NoPid]
    /\ waited = [t \in Threads |-> 0]
    /\ result = [t \in Threads |-> ResNone]
    /\ statusOut = [t \in Threads |-> EmptyMap]
    /\ todo = [t \in Threads |-> {}]
    /\ entryAtCheck = [t \in Threads |-> "none"]
    /\ seenSpawn = [t \in Threads |-> {}]

\* `if i % 5 == 0` of single.py, `if i % 10 == 0` of the other two
ProgressEvery(s) == IF s = "single" THEN 5 ELSE 10

\* the function main calls for a session, named by its service
RootOf(s) ==
    IF s = "single" THEN "demo.operation"
    ELSE IF s = "service-tree" THEN "web"
    ELSE "frontend"

\* the `kind` each start_as_current_span call passes: SERVER everywhere in
\* astroshop.py and service-tree.py but for the Redis span (CLIENT);
\* single.py passes none, which is the SDK's default, INTERNAL
SpanKindOf(node) ==
    IF node = "redis" THEN "CLIENT"
    ELSE IF node = "demo.operation" THEN "INTERNAL"
    ELSE "SERVER"

\* the patterns a simulate function of astroshop.py turns into an error or
\* a counter, and those single.py marks on its span
AstroFlags == {"cartservice_errors", "payment_timeout",
               "memory_leak_recommendation"}
SingleFlags == {"slow_response", "timeout", "error_rate"}

\* what a simulate function decides once its span is open: the calls it
\* goes on to make, the error attribute, rpc.grpc.status_code (0 when it is
\* 0 or not set), the patterns its attributes name, and whether an
\* exception leaves the `with` block
Normal(edges) ==
    [edges |-> edges, err |-> FALSE, code |-> 0, marks |-> {}, exc |-> FALSE]
Failed(code, p) ==
    [edges |-> <<>>, err |-> TRUE, code |-> code, marks |-> {p},
     exc |-> FALSE]

Opt(b, s) == IF b THEN s ELSE <<>>

\* simulate_frontend_request: catalog, recommendation, AddItem with
\* probability 0.6, checkout with 0.3, ad, currency with 0.5
FrontendDecisions ==
    { Normal(<<"productcatalog", "recommendation">>
             \o Opt(a, <<"cartservice">>) \o Opt(c, <<"checkout">>)
             \o <<"ad">> \o Opt(u, <<"currency">>)) :
        a \in BOOLEAN, c \in BOOLEAN, u \in BOOLEAN }

\* mutant: the failed call goes on to Redis
CartDecisionsCallRedis(fl) ==
    {Normal(<<"redis">>)}
    \cup IF "cartservice_errors" \in fl
         THEN {[Failed(2, "cartservice_errors") EXCEPT !.edges = <<"redis">>]}
         ELSE {}

\* mutant: the call may fail whatever the flag says
CartDecisionsAnyFlag(fl) ==
    {Normal(<<"redis">>), Failed(2, "cartservice_errors")}

\* simulate_cartservice: with cartservice_errors and probability 0.1 status
\* 2, error, return; otherwise the Redis GET
CartDecisions(fl) ==
    {Normal(<<"redis">>)}
    \cup IF "cartservice_errors" \in fl
         THEN {Failed(2, "cartservice_errors")}
         ELSE {}

\* simulate_payment: with payment_timeout and probability 0.5 status 4,
\* error, return
PaymentDecisions(fl) ==
    {Normal(<<>>)}
    \cup IF "payment_timeout" \in fl
         THEN {Failed(4, "payment_timeout")}
         ELSE {}

\* simulate_checkout: cart, currency, payment, shipping, email, in order
CheckoutEdges == <<"cartservice", "currency", "payment", "shipping", "email">>

\* simulate_api: auth, cache, and the database with probability 0.2
ApiDecisions == { Normal(<<"auth", "cache">> \o Opt(h, <<"db">>)) :
                    h \in BOOLEAN }

\* simulate_cache: a miss (probability 0.4) calls the database
CacheDecisions == { Normal(Opt(miss, <<"db">>)) : miss \in BOOLEAN }

\* the span of single.py: pattern.slow_response whenever the flag is set;
\* error and pattern.timeout, error and pattern.error_rate with the flag
\* and its probability; an exception may leave the block
SingleDecisions(fl) ==
    { [edges |-> <<>>, err |-> m # {}, code |-> 0,
       marks |-> (fl \cap {"slow_response"}) \cup m, exc |-> x] :
        m \in SUBSET (fl \cap {"timeout", "error_rate"}), x \in BOOLEAN }

Decisions(node, fl) ==
    CASE node = "frontend" -> FrontendDecisions
      [] node = "cartservice" -> CartDecisions(fl)
      [] node = "payment" -> PaymentDecisions(fl)
      [] node = "checkout" -> {Normal(CheckoutEdges)}
      [] node = "productcatalog" -> {Normal(<<"redis">>)}
      [] node = "recommendation" -> {Normal(<<"productcatalog">>)}
      [] node = "web" -> {Normal(<<"api">>)}
      [] node = "api" -> ApiDecisions
      [] node = "cache" -> CacheDecisions
      [] node = "demo.operation" -> SingleDecisions(fl)
      [] OTHER -> {Normal(<<>>)}

\* the span a start_as_current_span call opens
NewSpan(node, parent, d, sid) ==
    [node |-> node, parent |-> parent, kind |-> SpanKindOf(node),
     open |-> TRUE, err |-> d.err, code |-> d.code, marks |-> d.marks,
     exc |-> d.exc, sid |-> sid]

\* mutant: the outermost block
OutermostFrame(st) == st[1]

\* the `with` block the process is in
CurrentFrame(st) == st[Len(st)]

\* `_memory_leak_counter += 1`
NextCounter(c) == c + 1

\* mutant: `i += 2`
SkipId(n) == n + 2

\* `i += 1`
NextId(n) == n + 1

\* leak_delay = (_memory_leak_counter / 1000) * 0.01 seconds, in
\* microseconds
LeakDelay(c) == c * 10

\* line 90..94 of single.py, 390..391 of astroshop.py, 162..163 of
\* service-tree.py: the loop test, i += 1, and in single.py the record's
\* patterns for this session and get_rpm, which raises on a record that is
\* not a dict and so takes the iteration to the except clause before any
\* span is opened
BeginIteration ==
    /\ sessPc = "loop"
    /\ sessRunning
    /\ i' = NextId(i)
    /\ IF scenario = "single"
       THEN /\ \E fl \in SUBSET SingleFlags : flags' = fl
            /\ \E raises \in BOOLEAN :
                  IF raises
                  THEN sessPc' = "print" /\ raisedBefore' = TRUE
                  ELSE sessPc' = "root" /\ UNCHANGED raisedBefore
       ELSE /\ sessPc' = "root"
            /\ UNCHANGED <<flags, raisedBefore>>
    /\ UNCHANGED <<sessRunning, stack, spans, memory_leak_counter, pipe,
                   errPipe, recCalls, storeVars, raceVars, supAll>>

\* the root span: simulate_frontend_request, simulate_web_request, or the
\* span of single.py, opened with no parent context
OpenRoot ==
    /\ sessPc = "root"
    /\ \E d \in Decisions(RootOf(scenario), flags) :
        /\ spans' = <<NewSpan(RootOf(scenario), 0, d, i)>>
        /\ stack' = <<[span |-> 1, rest |-> d.edges]>>
    /\ sessPc' = "session"
    /\ UNCHANGED <<sessRunning, i, flags, memory_leak_counter, pipe,
                   errPipe, recCalls, raisedBefore, storeVars, raceVars,
                   supAll>>

\* the next call of the function the process is in: the callee opens its
\* span with context = trace.set_span_in_context(span) of the caller
OpenChild ==
    /\ sessPc = "session"
    /\ stack # <<>>
    /\ CurrentFrame(stack).rest # <<>>
    /\ LET top == CurrentFrame(stack)
           node == Head(top.rest)
       IN  /\ \E d \in Decisions(node, flags) :
                /\ spans' = Append(spans, NewSpan(node, top.span, d, i))
                /\ stack' = Append(
                      [stack EXCEPT ![Len(stack)].rest = Tail(top.rest)],
                      [span |-> Len(spans) + 1, rest |-> d.edges])
           /\ recCalls' = IF node = "recommendation"
                          THEN recCalls + 1 ELSE recCalls
    /\ UNCHANGED <<sessPc, sessRunning, i, flags, memory_leak_counter, pipe,
                   errPipe, raisedBefore, storeVars, raceVars, supAll>>

\* the function the process is in has made its calls: simulate_
\* recommendation counts if its pattern is set, the `with` block ends and
\* the span is closed; after the root span the session is over
CloseSpan ==
    /\ sessPc = "session"
    /\ stack # <<>>
    /\ CurrentFrame(stack).rest = <<>>
    /\ LET k == CurrentFrame(stack).span
           leak == /\ spans[k].node = "recommendation"
                   /\ "memory_leak_recommendation" \in flags
       IN  /\ spans' = [spans EXCEPT
                          ![k].open = FALSE,
                          ![k].marks = IF leak
                                       THEN @ \cup {"memory_leak_recommendation"}
                                       ELSE @]
           /\ memory_leak_counter' = IF leak
                                     THEN NextCounter(memory_leak_counter)
                                     ELSE memory_leak_counter
    /\ stack' = SubSeq(stack, 1, Len(stack) - 1)
    /\ IF Len(stack) = 1
       THEN /\ sessPc' = "print"
            /\ raisedBefore' = spans[1].exc
       ELSE UNCHANGED <<sessPc, raisedBefore>>
    /\ UNCHANGED <<sessRunning, i, flags, pipe, errPipe, recCalls,
                   storeVars, raceVars, supAll>>

\* after the session: single.py logs the exception a session raised
\* (logging.exception, to stderr), and otherwise every fifth or tenth
\* session is reported with print. start_scenario connected both streams to
\* pipes that nothing reads, and a write to a full pipe does not return
WriteProgress ==
    /\ sessPc = "print"
    /\ IF raisedBefore
       THEN /\ errPipe < PipeCapacity
            /\ errPipe' = errPipe + 1
            /\ UNCHANGED pipe
       ELSE IF i % ProgressEvery(scenario) = 0
       THEN /\ pipe < PipeCapacity
            /\ pipe' = pipe + 1
            /\ UNCHANGED errPipe
       ELSE UNCHANGED <<pipe, errPipe>>
    /\ sessPc' = "sleep"
    /\ UNCHANGED <<sessRunning, i, flags, stack, spans, memory_leak_counter,
                   recCalls, raisedBefore, storeVars, raceVars, supAll>>

\* time.sleep at the end of the iteration; in single.py `60.0 / rpm` comes
\* first and ends the process when get_rpm has never returned
Pause ==
    /\ sessPc = "sleep"
    /\ sessPc' = IF raisedBefore /\ spans = <<>> THEN "ended" ELSE "loop"
    /\ UNCHANGED <<sessRunning, i, flags, stack, spans, memory_leak_counter,
                   pipe, errPipe, recCalls, raisedBefore, storeVars, raceVars,
                   supAll>>

\* SIGINT or SIGTERM: _shutdown clears `running`
StopSignal ==
    /\ sessPc \notin {"unborn", "ended"}
    /\ sessRunning
    /\ sessRunning' = FALSE
    /\ UNCHANGED <<sessPc, i, flags, stack, spans, memory_leak_counter, pipe,
                   errPipe, recCalls, raisedBefore, storeVars, raceVars,
                   supAll>>

\* `while running` finds the flag cleared
LoopExit ==
    /\ sessPc = "loop"
    /\ ~sessRunning
    /\ sessPc' = "ended"
    /\ UNCHANGED <<sessRunning, i, flags, stack, spans, memory_leak_counter,
                   pipe, errPipe, recCalls, raisedBefore, storeVars, raceVars,
                   supAll>>

\* a scenario process at the top of main's loop. PROBLEM_PATTERNS of
\* astroshop.py is what toggle_pattern (lines 139..145) has made of it
SessionInit ==
    /\ SupervisorQuiet
    /\ scenario \in ScenarioNames
    /\ controlFile = AbsentFile
    /\ StoreQuiet
    /\ MainQuiet
    /\ RaceQuiet
    /\ sessPc = "loop"
    /\ sessRunning = TRUE
    /\ i = 0
    /\ flags \in IF scenario = "astroshop" THEN SUBSET AstroFlags ELSE {{}}
    /\ stack = <<>>
    /\ spans = <<>>
    /\ memory_leak_counter = 0
    /\ pipe = 0
    /\ errPipe = 0
    /\ recCalls = 0
    /\ raisedBefore = FALSE

\* the steps of the process itself
ProcessStep ==
    \/ BeginIteration
    \/ OpenRoot
    \/ OpenChild
    \/ CloseSpan
    \/ WriteProgress
    \/ Pause
    \/ LoopExit

SessionNext ==
    \/ BeginIteration
    \/ OpenRoot
    \/ OpenChild
    \/ CloseSpan
    \/ WriteProgress
    \/ Pause
    \/ LoopExit
    \/ StopSignal

SessionSpec == SessionInit /\ [][SessionNext]_vars

\* the operating system runs a process that can take a step
FairSessionSpec == SessionSpec /\ WF_vars(ProcessStep)

SessionTypeOK ==
    /\ sessPc \in {"loop", "root", "session", "print", "sleep", "ended"}
    /\ i \in Nat
    /\ pipe \in 0..PipeCapacity
    /\ errPipe \in 0..PipeCapacity
    /\ memory_leak_counter \in Nat

\* ------------------------------------------------------- vocabulary
\* the session's root span has closed and its spans are all recorded
SessionOver == sessPc = "print"

SpanIds == 1..Len(spans)

\* the services called from span k, in the order of the calls
ChildNodes(k) ==
    LET cs == SelectSeq(spans, LAMBDA s : s.parent = k)
    IN  [j \in 1..Len(cs) |-> cs[j].node]

\* span k is a cart or payment call whose fault decision was an error
FaultHit(k) ==
    /\ spans[k].node \in {"cartservice", "payment"}
    /\ spans[k].marks # {}

\* ------------------------------------------------------------------ C23
\* C23: when the fault decision of a cart or payment call yields an error,
\* the span of the call carries the error attribute and a status code other
\* than 0 and no span is ever opened below it; the calls that follow it in
\* the caller still take place: a finished checkout has made its five calls
\* in order, and a finished frontend request has loaded the ads after the
\* AddItem call.
C23_ErrorStopsDescent ==
    /\ \A k \in SpanIds :
         FaultHit(k) =>
            /\ spans[k].err
            /\ spans[k].code # 0
            /\ \A j \in SpanIds : spans[j].parent # k
    /\ SessionOver =>
         \A k \in SpanIds :
            /\ ~spans[k].open
            /\ spans[k].node = "checkout" => ChildNodes(k) = CheckoutEdges
            /\ (spans[k].node = "cartservice" /\ spans[k].parent = 1)
                 => \E j \in SpanIds :
                       j > k /\ spans[j].parent = 1 /\ spans[j].node = "ad"

\* a finished session whose AddItem call failed, and whose checkout saw both
\* its cart call and its payment call fail and still made all five calls
C23_Witness ==
    /\ SessionOver
    /\ \E a \in SpanIds, k \in SpanIds, c \in SpanIds, p \in SpanIds :
        /\ spans[a].node = "cartservice" /\ spans[a].parent = 1
        /\ FaultHit(a)
        /\ spans[k].node = "checkout"
        /\ spans[c].parent = k /\ spans[c].node = "cartservice" /\ FaultHit(c)
        /\ spans[p].parent = k /\ spans[p].node = "payment" /\ FaultHit(p)
        /\ ChildNodes(k) = CheckoutEdges

\* ------------------------------------------------------------------ C24
\* C24: in every session, the ones with an early return on an injected fault
\* included, a span is opened below a span that is open, a span is closed
\* only when every span below it has been closed, a closed span is never
\* closed or opened again, and when the session is over every span that was
\* opened is closed: no span closes before any of its children.
C24_SpansNest ==
    /\ [](\A k \in SpanIds :
            (spans[k].open /\ spans[k].parent # 0)
               => spans[spans[k].parent].open)
    /\ [][IF sessPc = "root" /\ sessPc' = "session"
          THEN Len(spans') = 1 /\ spans'[1].open /\ spans'[1].parent = 0
          ELSE /\ Len(spans') >= Len(spans)
               /\ \A k \in SpanIds :
                    /\ ~spans[k].open => ~spans'[k].open
                    /\ (spans[k].open /\ ~spans'[k].open)
                         => \A j \in SpanIds :
                                spans[j].parent = k => ~spans[j].open
               /\ \A j \in (Len(spans) + 1)..Len(spans') :
                    /\ spans'[j].open
                    /\ spans'[j].parent \in SpanIds
                    /\ spans[spans'[j].parent].open
               /\ sessPc' = "print" =>
                    \A k \in 1..Len(spans') : ~spans'[k].open
         ]_vars

\* a cart call that returned early on its fault is closed, the checkout
\* that made it is still open and has its next call in progress
C24_Witness ==
    \E k \in SpanIds, j \in SpanIds :
        /\ FaultHit(k)
        /\ ~spans[k].open
        /\ spans[spans[k].parent].node = "checkout"
        /\ spans[spans[k].parent].open
        /\ j > k
        /\ spans[j].parent = spans[k].parent
        /\ spans[j].open

\* ------------------------------------------------------------------ C25
\* C25: in every scenario the spans of a session form one tree: the first
\* span is the only one without a parent, it is of kind SERVER, every other
\* span has an earlier span of the same session as its parent, and a span
\* that is open has a parent that is open.
C25_OneTreeServerRoot ==
    spans # <<>> =>
        /\ spans[1].parent = 0
        /\ spans[1].kind = "SERVER"
        /\ \A k \in SpanIds \ {1} :
            /\ spans[k].parent \in 1..(k - 1)
            /\ spans[k].sid = spans[1].sid
            /\ spans[k].open => spans[spans[k].parent].open

\* ------------------------------------------------------------------ C26
\* C26: the counter of the recommendation edge goes up by one on every call
\* of simulate_recommendation, so that between calls it equals the number of
\* calls the process has made; it never goes down, and neither does the
\* delay computed from it.
C26_CounterCountsCalls ==
    /\ []((\A k \in SpanIds :
              spans[k].node = "recommendation" => ~spans[k].open)
            => memory_leak_counter = recCalls)
    /\ [][/\ memory_leak_counter' >= memory_leak_counter
          /\ LeakDelay(memory_leak_counter') >= LeakDelay(memory_leak_counter)
         ]_vars

\* ------------------------------------------------------------------ C27
\* the spans recorded are those of the session that consulted `flags`
InSession ==
    /\ sessPc \in {"session", "print"}
    /\ spans # <<>>
    /\ spans[1].sid = i

C28_SessionsInSequence ==
    /\ [](/\ i = 0 => spans = <<>>
          /\ sessPc = "session" => (spans[1].sid = i /\ i >= 1))
    /\ [][/\ i' # i =>
               /\ i' = i + 1
               /\ sessPc = "loop"
               /\ \A k \in SpanIds : ~spans[k].open
          /\ (sessPc = "root" /\ sessPc' = "session") =>
               /\ stack = <<>>
               /\ \A k \in SpanIds : ~spans[k].open /\ spans[k].sid < i
               /\ spans'[1].parent = 0
               /\ spans'[1].sid = i
         ]_vars

\* session 3 of single.py is under way after iteration 2 ended in the
\* except clause
C28_Witness ==
    /\ sessPc = "session"
    /\ spans[1].open
    /\ spans[1].sid = 3
    /\ raisedBefore
    /\ i = 3

\* ------------------------------------------------------------------ C30
\* C30: a scenario process that is sent no stop signal and does not end
\* begins iteration after iteration, each with its session, for ever,
\* although nothing reads the pipes its standard output and standard error
\* are connected to.
C30_ProgressWithoutReader ==
    \/ <>(~sessRunning)
    \/ <>(sessPc = "ended")
    \/ []<><<BeginIteration>>_vars

\* =========================================================================
\* Two control requests for one scenario served at the same time
\* (src/app.py: api_toggle_pattern, api_set_rpm; the HTTP server started by
\* app.run serves each request on a thread of its own, and the store takes
\* no lock)
\* =========================================================================

Other(h) == IF h = "toggle" THEN "rate" ELSE "toggle"

\* the key each handler assigns
HandlerKey(h) == IF h = "toggle" THEN PatternOf(scenario) ELSE "rpm"

\* the value each handler assigns: `enabled` as sent, the rate clamped
HandlerVals(h) ==
    IF h = "toggle" THEN {JBool(TRUE), JBool(FALSE)}
    ELSE { JInt(Clamp(r)) : r \in RateVals }

\* a record left by earlier requests
EarlierRecord ==
    [k \in {PatternOf(scenario), "rpm"} |->
        IF k = "rpm" THEN JInt(DefaultRpm) ELSE JBool(FALSE)]

\* write(text) on a file opened with "w": the text replaces what is at
\* offset 0; what another writer put beyond its end stays
Overlay(old, text) == text \o SubSeq(old, Len(text) + 1, Len(old))

\* toggle_pattern line 187..188 / set_rpm line 196..198: load_patterns and
\* the assignment of the handler's key; a record that is not a dict makes
\* the assignment raise
HandlerLoad(h, v) ==
    /\ hpc[h] = "idle"
    /\ hval' = [hval EXCEPT ![h] = v]
    /\ LET l == load_patterns(controlFile) IN
        IF l.kind = "dict"
        THEN /\ hpatterns' = [hpatterns EXCEPT
                                 ![h] = DictSet(l.d, HandlerKey(h), v)]
             /\ hpc' = [hpc EXCEPT ![h] = "loaded"]
             /\ UNCHANGED hresult
        ELSE /\ hpc' = [hpc EXCEPT ![h] = "done"]
             /\ hresult' = [hresult EXCEPT ![h] = "exception"]
             /\ UNCHANGED hpatterns
    /\ sawOther' = [sawOther EXCEPT ![h] = hresult[Other(h)] = "ok"]
    /\ torn' = (torn \/ hpc[Other(h)] = "opened")
    /\ UNCHANGED <<lastSaver, before, controlFile, scenario, cpc, ckey, cval,
                   patterns, cresult, cprev, simVars, simHist, callVars,
                   supAll>>

\* save_patterns line 178: open(control_file, "w") creates or empties the
\* file
HandlerOpen(h) ==
    /\ hpc[h] = "loaded"
    /\ controlFile' = FileWith(<<>>)
    /\ hpc' = [hpc EXCEPT ![h] = "opened"]
    /\ torn' = (torn \/ hpc[Other(h)] = "opened")
    /\ UNCHANGED <<hval, hpatterns, hresult, sawOther, lastSaver, before,
                   scenario, cpc, ckey, cval, patterns, cresult, cprev,
                   simVars, simHist, callVars, supAll>>

\* save_patterns line 181..182: open raises, the handler returns its error
HandlerOpenFails(h) ==
    /\ hpc[h] = "loaded"
    /\ hpc' = [hpc EXCEPT ![h] = "done"]
    /\ hresult' = [hresult EXCEPT ![h] = "error"]
    /\ UNCHANGED <<hval, hpatterns, torn, sawOther, lastSaver, before,
                   ctlVars, simVars, simHist, callVars, supAll>>

\* save_patterns line 179..180: json.dump and the close of the file, which
\* writes the text from offset 0; the handler returns ok
HandlerDump(h) ==
    /\ hpc[h] = "opened"
    /\ controlFile' = FileWith(Overlay(controlFile.data, Dump(hpatterns[h])))
    /\ hpc' = [hpc EXCEPT ![h] = "done"]
    /\ hresult' = [hresult EXCEPT ![h] = "ok"]
    /\ lastSaver' = h
    /\ UNCHANGED <<hval, hpatterns, torn, sawOther, before, scenario, cpc,
                   ckey, cval, patterns, cresult, cprev, simVars, simHist,
                   callVars, supAll>>

RaceInit ==
    /\ SupervisorQuiet
    /\ scenario \in ScenarioNames
    /\ controlFile \in InitialFiles \cup {FileWith(Dump(EarlierRecord))}
    /\ StoreQuiet
    /\ MainQuiet
    /\ CallQuiet
    /\ hpc = [h \in Handlers |-> "idle"]
    /\ hval = [h \in Handlers |-> NoValue]
    /\ hpatterns = [h \in Handlers |-> EmptyDict]
    /\ hresult = [h \in Handlers |-> "none"]
    /\ torn = FALSE
    /\ sawOther = [h \in Handlers |-> FALSE]
    /\ lastSaver = "none"
    /\ before = load_patterns(controlFile).d

RaceNext ==
    \E h \in Handlers :
        \/ \E v \in HandlerVals(h) : HandlerLoad(h, v)
        \/ HandlerOpen(h)
        \/ HandlerOpenFails(h)
        \/ HandlerDump(h)

RaceSpec == RaceInit /\ [][RaceNext]_vars

\* ------------------------------------------------------- vocabulary
\* both requests have returned ok
BothOk == \A h \in Handlers : hpc[h] = "done" /\ hresult[h] = "ok"

\* the record a load finds now
RecordNow == load_patterns(controlFile)

\* ------------------------------------------------------------------ C29
\* C29 as stated: whenever a toggle request and a rate request for one
\* scenario have both returned ok, however their load and save steps were
\* interleaved, the record loaded afterwards holds the pattern as toggled
\* and the rate as set.
C29_BothUpdatesKept ==
    BothOk =>
        /\ RecordNow.kind = "dict"
        /\ \A h \in Handlers :
             DictGet(RecordNow.d, HandlerKey(h), NoValue) = hval[h]

\* C29 amended: the last writer wins. When both requests have returned ok
\* and neither read or opened the file while the other had it open for
\* writing, the record loaded afterwards is the one the last saver wrote: it
\* holds the last saver's update; it holds the other update if the last
\* saver loaded after the other had saved, and otherwise shows for the other
\* key what the record held before the two requests.
C29_LastWriterWins ==
    (BothOk /\ ~torn) =>
        LET w == lastSaver
            o == Other(lastSaver)
        IN  /\ RecordNow = AsDict(hpatterns[w])
            /\ DictGet(RecordNow.d, HandlerKey(w), NoValue) = hval[w]
            /\ sawOther[w] =>
                 DictGet(RecordNow.d, HandlerKey(o), NoValue) = hval[o]
            /\ ~sawOther[w] =>
                 DictGet(RecordNow.d, HandlerKey(o), NoValue)
                    = DictGet(before, HandlerKey(o), NoValue)

\* both requests returned ok, neither touched the file while the other had
\* it open, both loaded before either saved, and the update of the one that
\* saved first is gone
C29_Witness ==
    /\ BothOk
    /\ ~torn
    /\ ~sawOther["toggle"] /\ ~sawOther["rate"]
    /\ DictGet(RecordNow.d, HandlerKey(Other(lastSaver)), NoValue)
         # hval[Other(lastSaver)]

\* ------------------------------------------------------------------ C31
\* C31: in every iteration of single.py's loop the patterns the session
\* applies and the rpm the following pause is computed from belong to one
\* version of the control record: when the session begins, the rpm is the
\* rpm of the record the patterns were loaded from, whatever the supervisor
\* wrote in between.
C31_FlagsAndRateFromOneRecord ==
    simPc = "session" =>
        /\ simPatterns.kind = "dict"
        /\ rpm = get_rpm(simPatterns.d)

\* ------------------------------------------------------------------ C32
\* C32: every scenario that has an entry in the map with a live process when
\* status() is called is among the names status() reports, also when its
\* file is not in the folder at that moment, and every name reported whose
\* recorded process is alive when status() returns is reported as running.
C32_AliveIsListed ==
    [][\A t \in Threads :
        /\ (pc[t] = "idle" /\ op'[t] = "status")
             => \A n \in ReqNames :
                   RecordedAlive(n) => n \in DOMAIN statusOut'[t]
        /\ (op[t] = "status" /\ Returns(t))
             => \A n \in DOMAIN statusOut[t] :
                   RecordedAlive(n) => statusOut[t][n].running
      ]_vars

\* =========================================================================
\* Shutdown of the supervisor (src/app.py: cleanup, __main__)
\* =========================================================================

\* data["process"].wait(timeout=2)
CleanupTimeout == 2

\* line 463..467: KeyboardInterrupt leaves app.run and cleanup is called;
\* request threads that are in a handler go on
KeyboardInterrupt ==
    /\ mainPc = "serving"
    /\ mainPc' = "cleanup_lock"
    /\ UNCHANGED <<cleanTodo, cleanProc, cleanWaited, cleanSeen, asked,
                   scenarioDir, supVars, procVars, threadVars, histVars,
                   storeVars, callVars, raceVars>>

\* line 431..432: with _scenarios_lock, list(_running_scenarios.items())
CleanupLock ==
    /\ mainPc = "cleanup_lock"
    /\ LockFree
    /\ scenarios_lock' = MainThread
    /\ cleanTodo' = DOMAIN running_scenarios
    /\ cleanSeen' = { running_scenarios[n].process :
                        n \in DOMAIN running_scenarios }
    /\ mainPc' = "cleanup_loop"
    /\ UNCHANGED <<cleanProc, cleanWaited, asked, scenarioDir,
                   running_scenarios, procVars, threadVars, histVars,
                   storeVars, callVars, raceVars>>

\* line 434: data["process"].terminate() for the next entry
CleanupTerminate(n) ==
    /\ mainPc = "cleanup_loop"
    /\ n \in cleanTodo
    /\ LET p == running_scenarios[n].process IN
        /\ cleanProc' = p
        /\ asked' = asked \cup {p}
        /\ procState' = [procState EXCEPT ![p] = SendSignal(@, "sigterm")]
    /\ cleanTodo' = cleanTodo \ {n}
    /\ cleanWaited' = 0
    /\ mainPc' = "cleanup_wait"
    /\ UNCHANGED <<cleanSeen, scenarioDir, supVars, procName, nextPid,
                   threadVars, histVars, storeVars, callVars, raceVars>>

\* line 434, 436: os.kill inside terminate() raises, the except clause is
\* entered
CleanupTerminateRaises(n) ==
    /\ mainPc = "cleanup_loop"
    /\ n \in cleanTodo
    /\ PollIsNone(running_scenarios[n].process)
    /\ cleanProc' = running_scenarios[n].process
    /\ asked' = asked \cup {running_scenarios[n].process}
    /\ cleanTodo' = cleanTodo \ {n}
    /\ mainPc' = "cleanup_kill"
    /\ UNCHANGED <<cleanWaited, cleanSeen, scenarioDir, supVars, procVars,
                   threadVars, histVars, storeVars, callVars, raceVars>>

\* one time unit passes in wait(timeout=2)
CleanupTick ==
    /\ mainPc = "cleanup_wait"
    /\ PollIsNone(cleanProc)
    /\ cleanWaited < CleanupTimeout
    /\ cleanWaited' = cleanWaited + 1
    /\ UNCHANGED <<mainPc, cleanTodo, cleanProc, cleanSeen, asked,
                   scenarioDir, supVars, procVars, threadVars, histVars,
                   storeVars, callVars, raceVars>>

\* line 435: wait returns, the process has exited
CleanupWaitReturns ==
    /\ mainPc = "cleanup_wait"
    /\ ~PollIsNone(cleanProc)
    /\ mainPc' = "cleanup_loop"
    /\ cleanProc' = NoPid
    /\ cleanWaited' = 0
    /\ UNCHANGED <<cleanTodo, cleanSeen, asked, scenarioDir, supVars,
                   procVars, threadVars, histVars, storeVars, callVars,
                   raceVars>>

\* line 435..436: wait raises TimeoutExpired, the except clause is entered
CleanupWaitTimeout ==
    /\ mainPc = "cleanup_wait"
    /\ PollIsNone(cleanProc)
    /\ cleanWaited = CleanupTimeout
    /\ mainPc' = "cleanup_kill"
    /\ cleanWaited' = 0
    /\ UNCHANGED <<cleanTodo, cleanProc, cleanSeen, asked, scenarioDir,
                   supVars, procVars, threadVars, histVars, storeVars,
                   callVars, raceVars>>

\* line 437..438: data["process"].kill()
CleanupKill ==
    /\ mainPc = "cleanup_kill"
    /\ procState' = [procState EXCEPT
                        ![cleanProc] = SendSignal(@, "sigkill")]
    /\ mainPc' = "cleanup_loop"
    /\ cleanProc' = NoPid
    /\ UNCHANGED <<cleanTodo, cleanWaited, cleanSeen, asked, scenarioDir,
                   supVars, procName, nextPid, threadVars, histVars,
                   storeVars, callVars, raceVars>>

\* line 438..440: os.kill inside kill() raises as well; `except Exception:
\* pass` drops the exception and the loop goes on
CleanupKillRaises ==
    /\ mainPc = "cleanup_kill"
    /\ PollIsNone(cleanProc)
    /\ mainPc' = "cleanup_loop"
    /\ cleanProc' = NoPid
    /\ UNCHANGED <<cleanTodo, cleanWaited, cleanSeen, asked, scenarioDir,
                   supVars, procVars, threadVars, histVars, storeVars,
                   callVars, raceVars>>

\* line 441, 467: the loop is over, the lock is released, cleanup returns
\* and sys.exit(0) ends the supervisor
CleanupReturn ==
    /\ mainPc = "cleanup_loop"
    /\ cleanTodo = {}
    /\ scenarios_lock' = NoThread
    /\ mainPc' = "done"
    /\ UNCHANGED <<cleanTodo, cleanProc, cleanWaited, cleanSeen, asked,
                   scenarioDir, running_scenarios, procVars, threadVars,
                   histVars, storeVars, callVars, raceVars>>

\* the supervisor with its shutdown; once it has exited only the scenario
\* processes take steps
CleanupNext ==
    \/ mainPc # "done" /\ NextSupervisor
    \/ mainPc = "done" /\ \E p \in Pids : ProcExit(p)
    \/ KeyboardInterrupt
    \/ CleanupLock
    \/ \E n \in ReqNames : CleanupTerminate(n)
    \/ \E n \in ReqNames : CleanupTerminateRaises(n)
    \/ CleanupTick
    \/ CleanupWaitReturns
    \/ CleanupWaitTimeout
    \/ CleanupKill
    \/ CleanupKillRaises
    \/ CleanupReturn

CleanupSpec == Init /\ [][CleanupNext]_vars

\* ------------------------------------------------------------------ C33
\* C33: when cleanup has returned, every process that was recorded in the
\* map when cleanup listed it has had terminate() called on it, and has
\* exited or, having not exited within the wait or terminate() having
\* raised, has been sent the kill: none of them is left running.
C33_CleanupStopsAll ==
    mainPc = "done" =>
        \A p \in cleanSeen :
            /\ p \in asked
            /\ procState[p] \in {"exited", "sigkill"}

====
